---- MODULE Spec2Model ----
(***************************************************************************)
(* Allocation pipeline of globeco-allocation-service.                      *)
(*                                                                         *)
(* The model follows internal/service (ExecutionService.CreateBatch,       *)
(* processExecution, Send), internal/repository (ExecutionRepository,      *)
(* BatchHistoryRepository) and the handler's status mapping.  The two      *)
(* tables of the store are sequences in commit order.  Every statement of  *)
(* the store (a SELECT or an INSERT) is one atomic step, and so is the     *)
(* call to the Trade Service.  The service code that runs after one of     *)
(* these returns, up to the next one, belongs to the same step; so a       *)
(* reading of time.Now() is taken strictly before the INSERT that stores   *)
(* it, and other callers can run in between.                               *)
(*                                                                         *)
(* attempts, rivals, before and lastBatch are history variables: the       *)
(* claimed windows with their selections, the send calls that read the     *)
(* same maximum before either inserted, and the store and batch of an      *)
(* ingest call at entry.  The program never reads them.                    *)
(*                                                                         *)
(* Time is a natural number.  0 is Go's zero time.Time{}.  Every call of   *)
(* time.Now() advances the reference clock by one tick; the value a caller *)
(* reads is the reference clock, or, when the call is served by a replica  *)
(* whose wall clock lags, the reference clock minus MaxSkew (at least 1).  *)
(***************************************************************************)
EXTENDS Integers, Sequences, FiniteSets, TLC

\* ------------------------------------------------------------------ bounds
MaxEsid == 2
MaxBatch == 1
MaxCalls == 2
MaxSeqBatch == 2
MaxRetries == 1
MaxPipelineCalls == 4
MaxClaims == 3
MaxSkew == 2
MaxSizedCalls == 2
MaxClientRetries == 3
MaxBaseDelay == 2
MaxHandlerCalls == 3
MaxLookupBatch == 2
MaxLookupCalls == 1
MaxSentDay == 2
MaxUpdateIngests == 1
MaxVersion == 1
MaxRepositoryClaims == 2
MaxFieldLen == 1
MaxListRows == 2
MaxListLimit == 2
MaxListOffset == 3
MaxHandoffCalls == 3
MaxLiveCalls == 2
MaxOutage == 2
MaxStoreFaults == 1

\* ------------------------------------------------------- program constants
MaxBatchSize == 100

Ingesters == {"i1", "i2"}
Senders == {"s1", "s2"}

ZeroTime == 0

\* NewTradeServiceClient: maxRetries and baseDelay (in seconds).
DefaultMaxRetries == 3
DefaultBaseDelay == 1

VARIABLES
  executions,     \* table execution, rows in commit order
  executionSeq,   \* last value drawn from execution_id_seq
  batchHistory,   \* table batch_history, rows in commit order
  batchSeq,       \* last value drawn from batch_history_id_seq
  storeFaults,    \* the statements that failed for a reason outside the tables
  storeFaultLimit, \* the statements the store's connection fails in this run at most
  clock,          \* reference clock
  tradeService,   \* the Trade Service's settled answer for each executionServiceId
  outage,         \* the requests the Trade Service still answers 500 before it settles
  ipc, batch, idx, execution, response, icalls, before, lastBatch,
  lookups,        \* Trade Service calls made by each caller's current ingest call
  lookupAttempt,  \* executeWithRetry under processExecution: its loop variable
  portfolioID,    \* processExecution: portfolioID
  probes,         \* GetByExecutionServiceID calls made by each caller's current ingest call
  ihttp, ierr,    \* CreateExecutions: status code, and message of an ErrorResponse
  spc, previousStartTime, currentTime, batchID, selection, sendResponse,
  claim,          \* the attempt of the window each caller's current call has claimed (0: none)
  sendErr, httpStatus, attempts, nsends, rivals,
  fileName,       \* Send: filename
  fd,             \* GeneratePortfolioAccountingFile: the file its descriptor is open on
  written,        \* and the lines written through it
  sendBody,       \* SendExecutions: the body written
  files,          \* the files of the output directory: name, inode and lines
  inodes,         \* the last inode number given to a new file
  cliCalls,       \* the commands run by the CLI invoker, in order
  fileCleanupEnabled, cliCommand,  \* configuration
  maxRetries, baseDelay,  \* TradeServiceClient fields
  cpc,            \* executeWithRetry: position
  attempt,        \* executeWithRetry: loop variable
  lastErr,        \* executeWithRetry: lastErr
  clientResult,   \* executeWithRetry: what it returned
  ctxErr,         \* ctx.Err() of the caller's context ("" while it is live)
  outcomes,       \* the requests issued so far, with what came back
  waited,         \* the backoff delays slept in full
  atCancel,       \* Len(outcomes) and Len(waited) when ctx ended during a wait
  upc,            \* a caller of the repository's GetByID and Update: position
  held,           \* the *domain.Execution that caller holds
  ures,           \* its last Update: the id and version supplied, and the error
  listResponse,   \* GetExecutions: the query parameters and the body written
  listCall        \* ExecutionRepository.List: position, arguments and the count read

storeVars == <<executions, executionSeq, batchHistory, batchSeq, storeFaults>>
ingestVars == <<ipc, batch, idx, execution, response, icalls, before, lastBatch,
                lookups, lookupAttempt, portfolioID, probes, ihttp, ierr>>
tradeVars == <<tradeService, outage, storeFaultLimit>>
sendVars == <<spc, previousStartTime, currentTime, batchID, claim, selection,
              sendResponse, sendErr, httpStatus, attempts, nsends, rivals,
              fileName, fd, written, sendBody>>
handoffVars == <<files, inodes, cliCalls, fileCleanupEnabled, cliCommand>>
clientVars == <<maxRetries, baseDelay, cpc, attempt, lastErr, clientResult,
                ctxErr, outcomes, waited, atCancel>>
updateVars == <<upc, held, ures>>
listVars == <<listResponse, listCall>>
vars == <<storeVars, clock, tradeVars, ingestVars, sendVars, handoffVars,
          clientVars, updateVars, listVars>>

\* ------------------------------------------------------------------ inputs
BaseDTO(e, open) ==
  [executionServiceId |-> e, isOpen |-> open, executionStatus |-> "FILLED",
   tradeType |-> "BUY", destination |-> "NYSE", securityId |-> "SEC1",
   ticker |-> "AAPL", quantity |-> 100, receivedTimestamp |-> 34,
   sentTimestamp |-> 34, quantityFilled |-> 100, totalAmount |-> 15000,
   averagePrice |-> 150]

OpenDTOs == {BaseDTO(1, TRUE)}

InvalidDTOs ==
  { [BaseDTO(1, FALSE) EXCEPT !.quantity = 0],
    [BaseDTO(2, TRUE) EXCEPT !.tradeType = "HOLD"],
    BaseDTO(0, FALSE) }

ClosedDTOs == {BaseDTO(e, FALSE) : e \in 1..MaxEsid}

SeqsUpTo(S, n) == UNION {[1..k -> S] : k \in 1..n}

\* Trade Service answers, given to every request for an id: the HTTP status
\* (0 when no response arrives), whether the body is JSON, and the portfolio
\* ids of the executions in the body.
Resolved == [status |-> 200, body |-> "json", executions |-> <<"PORTFOLIO1">>]
TradeAnswers ==
  { Resolved,
    [status |-> 200, body |-> "json", executions |-> <<>>],
    [status |-> 200, body |-> "json", executions |-> <<"">>],
    [status |-> 404, body |-> "", executions |-> <<>>] }

\* Every way a lookup can end.
LookupAnswers ==
  TradeAnswers \cup
  { [status |-> 0, body |-> "", executions |-> <<>>],
    [status |-> 500, body |-> "", executions |-> <<>>],
    [status |-> 200, body |-> "invalid json", executions |-> <<>>] }

\* ----------------------------------------------------------------- helpers
NoResponse == [ProcessedCount |-> 0, SkippedCount |-> 0, ErrorCount |-> 0,
               Results |-> <<>>]

NoExecution == [id |-> 0]

\* validator.Struct on ExecutionPostDTO: the `validate` tags of the struct.
ValidateStruct(dto) ==
  /\ dto.executionServiceId # 0
  /\ dto.executionStatus # ""
  /\ dto.tradeType \in {"BUY", "SELL"}
  /\ dto.destination # ""
  /\ dto.securityId # ""
  /\ dto.ticker # ""
  /\ dto.quantity > 0
  /\ dto.receivedTimestamp # ZeroTime
  /\ dto.sentTimestamp # ZeroTime
  /\ dto.quantityFilled >= 0
  /\ dto.totalAmount >= 0
  /\ dto.averagePrice > 0

\* A probe that never finds a row: C7 rests on the probe.
GetByExecutionServiceIDNotFound(rows, esid) == {}

\* SELECT * FROM execution WHERE execution_service_id = $1
GetByExecutionServiceID(rows, esid) ==
  {i \in 1..Len(rows) : rows[i].executionServiceId = esid}

\* A request that came back with no response at all (status 0): the
\* transport failed or the body could not be read.
TransportError == [status |-> 0, body |-> ""]

\* A Go error: msg is "" for nil, StatusCode is set for an *HTTPError.
NoErr == [msg |-> "", StatusCode |-> 0]

\* executeRequest: the error it returns for what came back.
ExecuteRequest(r) ==
  IF r.status = 0 THEN [msg |-> "HTTP request failed", StatusCode |-> 0]
  ELSE IF r.status >= 400 THEN [msg |-> "HTTPError", StatusCode |-> r.status]
  ELSE IF r.body # "json" THEN [msg |-> "failed to parse response", StatusCode |-> 0]
  ELSE NoErr

\* GetExecutionByServiceID: whether it returns an error.  Against a server
\* that answers every request for the id alike, executeWithRetry ends with
\* the error of its last request.
GetExecutionByServiceIDFails(answer) == ExecuteRequest(answer) # NoErr

\* A lookup that accepts an empty portfolio id: C23 rests on the last test.
GetPortfolioIDUnchecked(answer) ==
  IF GetExecutionByServiceIDFails(answer) THEN [err |-> "trade service call failed", portfolioID |-> ""]
  ELSE IF Len(answer.executions) = 0
       THEN [err |-> "no execution found in trade service", portfolioID |-> ""]
  ELSE [err |-> "", portfolioID |-> answer.executions[1]]

\* A lookup that swallows the error of the call and goes on with what it has:
\* C24 rests on the return at the error.
GetPortfolioIDErrDropped(answer) ==
  [err |-> "",
   portfolioID |-> IF ~GetExecutionByServiceIDFails(answer) /\ Len(answer.executions) > 0
                     THEN answer.executions[1] ELSE ""]

\* getPortfolioIDFromTradeService: "" stands for a returned error.
GetPortfolioIDFromTradeService(answer) ==
  IF GetExecutionByServiceIDFails(answer) THEN [err |-> "trade service call failed", portfolioID |-> ""]
  ELSE IF Len(answer.executions) = 0
       THEN [err |-> "no execution found in trade service", portfolioID |-> ""]
  ELSE IF answer.executions[1] = ""
       THEN [err |-> "portfolio ID is empty", portfolioID |-> ""]
  ELSE [err |-> "", portfolioID |-> answer.executions[1]]

\* The readings time.Now() can return when the reference clock shows c.
NowReadings(c) == {c, IF c - MaxSkew < 1 THEN 1 ELSE c - MaxSkew}

\* The timestamps of a request are whole hours, counted from a midnight UTC
\* that is a whole number of days after the zero time; a date is a number of
\* days counted from the same midnight.
HoursPerDay == 24

\* America/New_York: hours behind UTC at instant t.  Daylight time begins at
\* 07:00 UTC of day 2.
DstStart == 2 * HoursPerDay + 7

EasternOffset(t) == IF t < DstStart THEN 5 ELSE 4

\* time.Time.Truncate: t rounded down to a multiple of d since the zero time.
\* The location of t plays no part.
Truncate(t, d) == t - (t % d)

\* The calendar date of instant t in a location off hours behind UTC: what
\* Format("2006-01-02") prints and what the driver sends for a DATE column.
DateIn(t, off) == (t - off) \div HoursPerDay

\* dtoToExecution: dto.SentTimestamp.In(easternLoc).Truncate(24 * time.Hour),
\* as the date it is stored and printed as.
TradeDate(sentTimestamp) ==
  LET tradeDate == Truncate(sentTimestamp, HoursPerDay)
  IN DateIn(tradeDate, EasternOffset(tradeDate))

\* dtoToExecution
DtoToExecution(dto, pfID, now) ==
  [id |-> 0,
   executionServiceId |-> dto.executionServiceId,
   isOpen |-> FALSE,
   tradeType |-> dto.tradeType,
   tradeDate |-> TradeDate(dto.sentTimestamp),
   securityId |-> dto.securityId,
   portfolioId |-> pfID,
   quantity |-> dto.quantity,
   averagePrice |-> dto.averagePrice,
   sentTimestamp |-> dto.sentTimestamp,
   readyToSendTimestamp |-> now,
   version |-> 1]

\* A table without the constraint: C1 rests on the constraint.
ExecutionUniqueViolationOff(rows, row) == FALSE

\* The UNIQUE constraint of execution.execution_service_id.
ExecutionUniqueViolation(rows, row) ==
  \E i \in 1..Len(rows) : rows[i].executionServiceId = row.executionServiceId

\* A size check that also turns away a batch of exactly the maximum: C20
\* rests on the comparison.
BatchSizeErrorInclusive(b) ==
  IF Len(b) = 0 THEN "no executions provided"
  ELSE IF Len(b) >= MaxBatchSize THEN "batch size exceeds maximum of 100 executions"
  ELSE ""

\* The size checks of CreateExecutions, repeated by CreateBatch ("" when the
\* batch passes).
BatchSizeError(b) ==
  IF Len(b) = 0 THEN "no executions provided"
  ELSE IF Len(b) > MaxBatchSize THEN "batch size exceeds maximum of 100 executions"
  ELSE ""

\* A mapping without the multi-status case: C21 rests on the second test.
CreateExecutionsStatusAllOrNothing(resp) ==
  IF resp.ErrorCount > 0 THEN 400 ELSE 201

\* CreateExecutions: the status code for a BatchCreateResponse.
CreateExecutionsStatus(resp) ==
  IF resp.ErrorCount > 0 /\ resp.ProcessedCount = 0 THEN 400
  ELSE IF resp.ErrorCount > 0 THEN 207
  ELSE 201

\* Bookkeeping that counts a result without appending it: C19 rests on the
\* append.
AddResultCountOnly(resp, result) ==
  [ProcessedCount |-> resp.ProcessedCount + (IF result.Status = "created" THEN 1 ELSE 0),
   SkippedCount |-> resp.SkippedCount + (IF result.Status = "skipped" THEN 1 ELSE 0),
   ErrorCount |-> resp.ErrorCount + (IF result.Status = "error" THEN 1 ELSE 0),
   Results |-> IF result.Status = "skipped" THEN resp.Results
               ELSE Append(resp.Results, result)]

\* CreateBatch's bookkeeping for one result (append and count).
AddResult(resp, result) ==
  [ProcessedCount |-> resp.ProcessedCount + (IF result.Status = "created" THEN 1 ELSE 0),
   SkippedCount |-> resp.SkippedCount + (IF result.Status = "skipped" THEN 1 ELSE 0),
   ErrorCount |-> resp.ErrorCount + (IF result.Status = "error" THEN 1 ELSE 0),
   Results |-> Append(resp.Results, result)]

Result(esid, status, error, id) ==
  [ExecutionServiceID |-> esid, Status |-> status, Error |-> error, ExecutionID |-> id]

\* ------------------------------------------------------------------- Init
InitStore ==
  /\ executions = <<>>
  /\ executionSeq = 0
  /\ batchHistory = <<>>
  /\ batchSeq = 0
  /\ storeFaults = 0
  /\ storeFaultLimit \in {0, MaxStoreFaults}
  /\ clock = 0

\* A store whose connection does not fail.
Healthy == storeFaultLimit = 0

InitIngest ==
  /\ ipc = [p \in Ingesters |-> "idle"]
  /\ batch = [p \in Ingesters |-> <<>>]
  /\ idx = [p \in Ingesters |-> 0]
  /\ execution = [p \in Ingesters |-> NoExecution]
  /\ response = [p \in Ingesters |-> NoResponse]
  /\ icalls = 0
  /\ before = [p \in Ingesters |-> {}]
  /\ lastBatch = [p \in Ingesters |-> <<>>]
  /\ lookups = [p \in Ingesters |-> 0]
  /\ lookupAttempt = [p \in Ingesters |-> 0]
  /\ portfolioID = [p \in Ingesters |-> ""]
  /\ outage \in 0..MaxOutage
  /\ probes = [p \in Ingesters |-> 0]
  /\ ihttp = [p \in Ingesters |-> 0]
  /\ ierr = [p \in Ingesters |-> ""]

\* A file name is the sequence of its parts; <<>> is the empty string.
NoFileName == <<>>

NoSendResponse ==
  [ProcessedCount |-> 0, FileName |-> NoFileName, Status |-> "", Message |-> ""]

NoBody == [kind |-> "", response |-> NoSendResponse, message |-> "", details |-> ""]

InitSend ==
  /\ spc = [p \in Senders |-> "idle"]
  /\ previousStartTime = [p \in Senders |-> ZeroTime]
  /\ currentTime = [p \in Senders |-> ZeroTime]
  /\ batchID = [p \in Senders |-> 0]
  /\ claim = [p \in Senders |-> 0]
  /\ selection = [p \in Senders |-> <<>>]
  /\ sendResponse = [p \in Senders |-> NoSendResponse]
  /\ sendErr = [p \in Senders |-> ""]
  /\ httpStatus = [p \in Senders |-> 0]
  /\ attempts = <<>>
  /\ nsends = 0
  /\ rivals = [p \in Senders |-> {}]
  /\ fileName = [p \in Senders |-> NoFileName]
  /\ fd = [p \in Senders |-> 0]
  /\ written = [p \in Senders |-> 0]
  /\ sendBody = [p \in Senders |-> NoBody]

InitHandoff ==
  /\ files = {}
  /\ inodes = 0
  /\ cliCalls = <<>>
  /\ fileCleanupEnabled = FALSE
  /\ cliCommand = <<"cli", " ", "{filename}">>

NoClientResult == [response |-> "", err |-> <<>>]

Updaters == {"u1", "u2"}

NoUpdate == [id |-> 0, version |-> 0, err |-> ""]

InitUpdate ==
  /\ upc = [u \in Updaters |-> "idle"]
  /\ held = [u \in Updaters |-> NoExecution]
  /\ ures = [u \in Updaters |-> NoUpdate]

NoPagination ==
  [TotalElements |-> 0, TotalPages |-> 0, CurrentPage |-> 0, PageSize |-> 0,
   HasNext |-> FALSE, HasPrevious |-> FALSE]

NoListResponse ==
  [status |-> 0, limit |-> 0, offset |-> 0, message |-> "", executions |-> <<>>,
   pagination |-> NoPagination]

NoListCall == [pc |-> "idle", limit |-> 0, offset |-> 0, totalCount |-> 0]

InitList ==
  /\ listResponse = NoListResponse
  /\ listCall = NoListCall

InitClientRun ==
  /\ cpc = "idle"
  /\ attempt = 0
  /\ lastErr = NoErr
  /\ clientResult = NoClientResult
  /\ ctxErr = ""
  /\ outcomes = <<>>
  /\ waited = <<>>
  /\ atCancel = <<>>

InitClient ==
  /\ maxRetries = DefaultMaxRetries
  /\ baseDelay = DefaultBaseDelay
  /\ InitClientRun

Init ==
  /\ InitStore
  /\ InitIngest
  /\ InitSend
  /\ InitHandoff
  /\ InitUpdate
  /\ InitList
  /\ InitClient
  /\ tradeService = [e \in 1..MaxEsid |-> Resolved]

\* ------------------------------------------------------ the retry loop
\* The test that ends the loop on a client error.
IsClientError(err) ==
  /\ err.msg = "HTTPError"
  /\ err.StatusCode >= 400
  /\ err.StatusCode < 500

\* A loop that stops one attempt early: C16 rests on the loop condition.
LoopConditionStrict(a, retries) == a < retries

\* for attempt := 0; attempt <= c.maxRetries; attempt++
LoopCondition(a, retries) == a <= retries

\* A delay that doubles from one retry to the next: C39 rests on the product.
DelayDoubling(a, base) == (2 ^ (a - 1)) * base

\* delay := time.Duration(attempt) * c.baseDelay
Delay(a, base) == a * base

\* A wait whose timer never fires and which ignores the context: C37 rests
\* on one of the two cases of the select becoming ready.
BackoffNever(ctxEnded, delay) == {}

\* A wait that sleeps the delay out whatever the context does: C18 rests on
\* the select.
BackoffSleep(ctxEnded, delay) == {"timer"}

\* select { case <-time.After(delay): case <-ctx.Done(): }: the cases that can
\* be taken.  With a positive delay the timer is not ready while the context
\* is already done; with no delay both cases can be ready, and select takes
\* either.
BackoffSelect(ctxEnded, delay) ==
  IF ~ctxEnded THEN {"timer"} ELSE IF delay > 0 THEN {"ctx"} ELSE {"timer", "ctx"}

\* --------------------------------------------------------------- ingestion
\* After a result for the current record: next record, or CreateBatch
\* returns and CreateExecutions writes the response.
Advance(p, result) ==
  /\ response' = [response EXCEPT ![p] = AddResult(@, result)]
  /\ idx' = [idx EXCEPT ![p] = @ + 1]
  /\ execution' = [execution EXCEPT ![p] = NoExecution]
  /\ IF idx[p] = Len(batch[p])
       THEN /\ ipc' = [ipc EXCEPT ![p] = "done"]
            /\ ihttp' = [ihttp EXCEPT ![p] =
                           CreateExecutionsStatus(AddResult(response[p], result))]
       ELSE /\ ipc' = [ipc EXCEPT ![p] = "probe"]
            /\ UNCHANGED ihttp

\* CreateExecutions and the entry of CreateBatch: the size checks, then
\* either the call is answered 400 or the loop is entered.
CreateBatch(p, b, cap) ==
  /\ ipc[p] \in {"idle", "done"}
  /\ icalls < cap
  /\ icalls' = icalls + 1
  /\ batch' = [batch EXCEPT ![p] = b]
  /\ lastBatch' = [lastBatch EXCEPT ![p] = batch[p]]
  /\ before' = [before EXCEPT ![p] =
                  {executions[i].executionServiceId : i \in 1..Len(executions)}]
  /\ lookups' = [lookups EXCEPT ![p] = 0]
  /\ lookupAttempt' = [lookupAttempt EXCEPT ![p] = 0]
  /\ portfolioID' = [portfolioID EXCEPT ![p] = ""]
  /\ probes' = [probes EXCEPT ![p] = 0]
  /\ response' = [response EXCEPT ![p] = NoResponse]
  /\ execution' = [execution EXCEPT ![p] = NoExecution]
  /\ IF BatchSizeError(b) # ""
       THEN /\ ihttp' = [ihttp EXCEPT ![p] = 400]
            /\ ierr' = [ierr EXCEPT ![p] = BatchSizeError(b)]
            /\ idx' = [idx EXCEPT ![p] = 0]
            /\ ipc' = [ipc EXCEPT ![p] = "done"]
       ELSE /\ ihttp' = [ihttp EXCEPT ![p] = 0]
            /\ ierr' = [ierr EXCEPT ![p] = ""]
            /\ idx' = [idx EXCEPT ![p] = 1]
            /\ ipc' = [ipc EXCEPT ![p] = "probe"]
  /\ UNCHANGED <<storeVars, clock, tradeVars, clientVars, updateVars, listVars, handoffVars, sendVars>>

\* A processExecution that filters open records before it validates: C32
\* rests on the order of the two tests.
ProbeOpenFirst(p) ==
  /\ ipc[p] = "probe"
  /\ LET dto == batch[p][idx[p]]
         esid == dto.executionServiceId
         existing == IF ctxErr # "" THEN {}
                     ELSE GetByExecutionServiceID(executions, esid)
         NotSkipped ==
           /\ ipc' = [ipc EXCEPT ![p] = "lookup"]
           /\ UNCHANGED <<idx, execution, response, ihttp>>
     IN IF dto.isOpen
          THEN /\ Advance(p, Result(esid, "skipped", "execution is still open", 0))
               /\ UNCHANGED <<probes, storeFaults>>
        ELSE IF ~ValidateStruct(dto)
          THEN /\ Advance(p, Result(esid, "error", "validation failed", 0))
               /\ UNCHANGED <<probes, storeFaults>>
        ELSE /\ probes' = [probes EXCEPT ![p] = @ + 1]
             /\ \/ /\ UNCHANGED storeFaults
                   /\ IF existing # {}
                        THEN Advance(p, Result(esid, "skipped", "execution already exists",
                                               executions[CHOOSE i \in existing : TRUE].id))
                        ELSE NotSkipped
                \/ \* the SELECT fails
                   /\ ctxErr = ""
                   /\ storeFaults < storeFaultLimit
                   /\ storeFaults' = storeFaults + 1
                   /\ NotSkipped
  /\ UNCHANGED <<executions, executionSeq, batchHistory, batchSeq, clock, tradeVars, clientVars,
                 updateVars, listVars, handoffVars, sendVars,
                 batch, icalls, before, lastBatch, lookups, lookupAttempt, portfolioID, ierr>>

\* processExecution up to and including the idempotency probe.  The record
\* is skipped only when the probe returns a row and no error: when the SELECT
\* fails, or the context has ended and the probe returns its error without
\* reaching the store, processExecution goes on as it does when no row is
\* found.
Probe(p) ==
  /\ ipc[p] = "probe"
  /\ LET dto == batch[p][idx[p]]
         esid == dto.executionServiceId
         existing == IF ctxErr # "" THEN {}
                     ELSE GetByExecutionServiceID(executions, esid)
         NotSkipped ==
           /\ ipc' = [ipc EXCEPT ![p] = "lookup"]
           /\ UNCHANGED <<idx, execution, response, ihttp>>
     IN IF ~ValidateStruct(dto)
          THEN /\ Advance(p, Result(esid, "error", "validation failed", 0))
               /\ UNCHANGED <<probes, storeFaults>>
        ELSE IF dto.isOpen
          THEN /\ Advance(p, Result(esid, "skipped", "execution is still open", 0))
               /\ UNCHANGED <<probes, storeFaults>>
        ELSE /\ probes' = [probes EXCEPT ![p] = @ + 1]
             /\ \/ /\ UNCHANGED storeFaults
                   /\ IF existing # {}
                        THEN Advance(p, Result(esid, "skipped", "execution already exists",
                                               executions[CHOOSE i \in existing : TRUE].id))
                        ELSE NotSkipped
                \/ \* the SELECT fails
                   /\ ctxErr = ""
                   /\ storeFaults < storeFaultLimit
                   /\ storeFaults' = storeFaults + 1
                   /\ NotSkipped
  /\ UNCHANGED <<executions, executionSeq, batchHistory, batchSeq, clock, tradeVars, clientVars,
                 updateVars, listVars, handoffVars, sendVars,
                 batch, icalls, before, lastBatch, lookups, lookupAttempt, portfolioID, ierr>>

\* What the Trade Service sends while it is out.
Unavailable == [status |-> 500, body |-> "", executions |-> <<>>]

\* GetExecutionByServiceID has returned, answer being what its last request
\* came back with: the rest of getPortfolioIDFromTradeService, and
\* processExecution's test of its error.
LookupReturns(p, answer) ==
  LET esid == batch[p][idx[p]].executionServiceId
      r == GetPortfolioIDFromTradeService(answer)
  IN /\ lookupAttempt' = [lookupAttempt EXCEPT ![p] = 0]
     /\ IF r.err # ""
          THEN /\ Advance(p, Result(esid, "error", "failed to get portfolio ID", 0))
               /\ UNCHANGED portfolioID
          ELSE /\ portfolioID' = [portfolioID EXCEPT ![p] = r.portfolioID]
               /\ ipc' = [ipc EXCEPT ![p] = "convert"]
               /\ UNCHANGED <<idx, execution, response, ihttp>>

\* The portfolio lookup: one pass of executeWithRetry's loop after its wait,
\* the request and what the loop does with its result.  With no pass to run
\* the call fails without a request.  Under a context that has ended the
\* request fails in the transport; a Trade Service that is out answers 500.
Lookup(p) ==
  /\ ipc[p] = "lookup"
  /\ lookups' = [lookups EXCEPT ![p] = IF lookupAttempt[p] = 0 THEN @ + 1 ELSE @]
  /\ IF ~LoopCondition(lookupAttempt[p], maxRetries)
       THEN /\ LookupReturns(p, TransportError)
            /\ UNCHANGED outage
       ELSE LET esid == batch[p][idx[p]].executionServiceId
                answer == IF ctxErr # "" THEN TransportError
                          ELSE IF outage > 0 THEN Unavailable
                          ELSE tradeService[esid]
                err == ExecuteRequest(answer)
            IN /\ outage' = IF ctxErr = "" /\ outage > 0 THEN outage - 1 ELSE outage
               /\ IF \/ err = NoErr
                     \/ IsClientError(err)
                     \/ ~LoopCondition(lookupAttempt[p] + 1, maxRetries)
                    THEN LookupReturns(p, answer)
                    ELSE /\ lookupAttempt' = [lookupAttempt EXCEPT ![p] = @ + 1]
                         /\ ipc' = [ipc EXCEPT ![p] = "backoff"]
                         /\ UNCHANGED <<idx, execution, response, ihttp, portfolioID>>
  /\ UNCHANGED <<storeVars, clock, tradeService, storeFaultLimit, clientVars, updateVars, listVars,
                 handoffVars, sendVars, batch, icalls, before, lastBatch, probes, ierr>>

\* The wait between two requests of the lookup: the timer fires, or the
\* context has ended and the call returns ctx.Err().
LookupBackoff(p) ==
  /\ ipc[p] = "backoff"
  /\ \E branch \in BackoffSelect(ctxErr # "", Delay(lookupAttempt[p], baseDelay)) :
        IF branch = "timer"
          THEN /\ ipc' = [ipc EXCEPT ![p] = "lookup"]
               /\ UNCHANGED <<idx, execution, response, ihttp, portfolioID, lookupAttempt>>
          ELSE LookupReturns(p, TransportError)
  /\ UNCHANGED <<storeVars, clock, tradeVars, clientVars, updateVars, listVars,
                 handoffVars, sendVars, batch, icalls, before, lastBatch, lookups,
                 probes, ierr>>

\* dtoToExecution, with its reading of time.Now().
BuildExecution(p) ==
  /\ ipc[p] = "convert"
  /\ clock' = clock + 1
  /\ \E now \in NowReadings(clock + 1) :
        execution' = [execution EXCEPT ![p] =
                        DtoToExecution(batch[p][idx[p]], portfolioID[p], now)]
  /\ ipc' = [ipc EXCEPT ![p] = "insert"]
  /\ UNCHANGED <<storeVars, tradeVars, clientVars, updateVars, listVars,
                 handoffVars, sendVars, batch, idx, response, icalls, before,
                 lastBatch, lookups, lookupAttempt, portfolioID, probes, ihttp, ierr>>

\* ExecutionRepository.Create and the rest of processExecution.  Under a
\* context that has ended the statement is not run.  The INSERT adds the row,
\* is rejected by the unique index, or fails before it reaches the table.
\* After an INSERT that added the row, rows.Scan can fail, and Create returns
\* its error with the row stored; or rows.Next() is false, nothing is
\* scanned, and Create returns nil with the ID of the struct left at 0.
CreateExecution(p) ==
  /\ ipc[p] = "insert"
  /\ LET row == [execution[p] EXCEPT !.id = executionSeq + 1]
         esid == row.executionServiceId
         Failed == Advance(p, Result(esid, "error", "failed to create execution", 0))
         Stored ==
           /\ executionSeq' = executionSeq + 1
           /\ executions' = Append(executions, row)
     IN IF ctxErr # ""
          THEN /\ Failed
               /\ UNCHANGED <<executions, executionSeq, storeFaults>>
          ELSE \/ /\ UNCHANGED storeFaults
                  /\ IF ExecutionUniqueViolation(executions, row)
                       THEN /\ executionSeq' = executionSeq + 1
                            /\ Failed
                            /\ UNCHANGED executions
                       ELSE /\ Stored
                            /\ Advance(p, Result(esid, "created", "", row.id))
               \/ /\ storeFaults < storeFaultLimit
                  /\ storeFaults' = storeFaults + 1
                  /\ \/ \* the statement fails before it reaches the table
                        /\ Failed
                        /\ UNCHANGED <<executions, executionSeq>>
                     \/ \* rows.Scan fails
                        /\ ~ExecutionUniqueViolation(executions, row)
                        /\ Stored
                        /\ Failed
                     \/ \* rows.Next() is false
                        /\ ~ExecutionUniqueViolation(executions, row)
                        /\ Stored
                        /\ Advance(p, Result(esid, "created", "", 0))
  /\ UNCHANGED <<batchHistory, batchSeq, clock, tradeVars, clientVars, updateVars, listVars, handoffVars, sendVars,
                 batch, icalls, before, lastBatch, lookups, lookupAttempt, portfolioID,
                 probes, ierr>>

\* -------------------------------------------------------------------- send
\* SELECT MAX(start_time) FROM batch_history; NULL becomes the zero time.
RECURSIVE MaxStart(_)
MaxStart(rows) ==
  IF rows = <<>> THEN ZeroTime
  ELSE LET m == MaxStart(Tail(rows))
       IN IF Head(rows).startTime > m THEN Head(rows).startTime ELSE m

GetMaxStartTime(rows) == MaxStart(rows)

\* The two unique indexes of batch_history.
BatchUniqueViolation(rows, row) ==
  \E i \in 1..Len(rows) :
     \/ rows[i].startTime = row.startTime
     \/ rows[i].previousStartTime = row.previousStartTime

\* BatchHistoryRepository.Create: the error it returns ("" for nil).  Every
\* failure of the INSERT, a unique violation included, is wrapped the same way.
BatchHistoryCreateErr(rows, row) ==
  IF BatchUniqueViolation(rows, row)
    THEN "failed to create batch history: pq: duplicate key value violates unique constraint"
    ELSE ""

\* Send's translation of the repository's error.
SendCreateErr(err) ==
  IF err = "duplicate batch detected"
    THEN "duplicate batch process already started"
    ELSE "failed to create batch history"

\* A mapping that knows no conflict: C22 rests on the comparison of the
\* error text.
SendExecutionsStatusNoConflict(resp, err) ==
  IF err # "" THEN 500
  ELSE IF resp.Status = "error" THEN 500 ELSE 200

\* ExecutionHandler.SendExecutions: the HTTP status for (response, err).
SendExecutionsStatus(resp, err) ==
  IF err # ""
    THEN IF err = "duplicate batch process already started" THEN 409 ELSE 500
    ELSE IF resp.Status = "error" THEN 500 ELSE 200

\* ORDER BY ready_to_send_timestamp ASC: whether a result is in that order.
\* The clause names no second key, so rows with equal timestamps come in
\* whatever order the store produces them.
OrderedByReady(rows) ==
  \A i, j \in 1..Len(rows) :
     i < j => rows[i].readyToSendTimestamp <= rows[j].readyToSendTimestamp

\* The arrangements of a sequence.
Arrangements(rows) ==
  LET n == Len(rows)
  IN { [k \in 1..n |-> rows[f[k]]] :
         f \in {g \in [1..n -> 1..n] : \A a, b \in 1..n : a # b => g[a] # g[b]} }

\* Variants of the window predicate, with a closed upper end and without
\* the lower end: C3 and C10 rest on the half-open window.
InWindowClosed(row, startTime, endTime) ==
  /\ row.readyToSendTimestamp >= startTime
  /\ row.readyToSendTimestamp <= endTime

InWindowNoLower(row, startTime, endTime) ==
  row.readyToSendTimestamp < endTime

\* WHERE ready_to_send_timestamp >= $1 AND ready_to_send_timestamp < $2
InWindow(row, startTime, endTime) ==
  /\ row.readyToSendTimestamp >= startTime
  /\ row.readyToSendTimestamp < endTime

\* ExecutionRepository.GetForBatch: the results the query can give.
GetForBatch(rows, startTime, endTime) ==
  { res \in Arrangements(SelectSeq(rows, LAMBDA r : InWindow(r, startTime, endTime))) :
      OrderedByReady(res) }

IdsOf(rows) == {rows[i].id : i \in 1..Len(rows)}

\* SendExecutions: the body written for (response, err).
SendExecutionsBody(resp, err) ==
  IF err # ""
    THEN [kind |-> "ErrorResponse", response |-> NoSendResponse,
          message |-> IF err = "duplicate batch process already started"
                        THEN "batch process already in progress"
                        ELSE "failed to process executions",
          details |-> err]
    ELSE [kind |-> "SendResponse", response |-> resp, message |-> "", details |-> ""]

\* Send returns: its locals go out of scope and the handler maps
\* (response, err) to the HTTP status and body.
Return(p, resp, err) ==
  /\ previousStartTime' = [previousStartTime EXCEPT ![p] = ZeroTime]
  /\ currentTime' = [currentTime EXCEPT ![p] = ZeroTime]
  /\ selection' = [selection EXCEPT ![p] = <<>>]
  /\ fileName' = [fileName EXCEPT ![p] = NoFileName]
  /\ fd' = [fd EXCEPT ![p] = 0]
  /\ written' = [written EXCEPT ![p] = 0]
  /\ sendResponse' = [sendResponse EXCEPT ![p] = resp]
  /\ sendErr' = [sendErr EXCEPT ![p] = err]
  /\ httpStatus' = [httpStatus EXCEPT ![p] = SendExecutionsStatus(resp, err)]
  /\ sendBody' = [sendBody EXCEPT ![p] = SendExecutionsBody(resp, err)]
  /\ spc' = [spc EXCEPT ![p] = "done"]

SetAttempt(p, state, ids, ran) ==
  attempts' = [attempts EXCEPT ![claim[p]] =
                 [@ EXCEPT !.state = state, !.selected = ids, !.ran = ran]]

\* What a statement returns when it fails for a reason outside the tables: the
\* store cannot be reached, or the context of the request has ended.
StatementError == "connection refused"

\* Send, step 1 and the construction of the batch-history record; or step 1
\* fails and Send returns its error.
SendStart(p, cap) ==
  /\ spc[p] \in {"idle", "done"}
  /\ nsends < cap
  /\ nsends' = nsends + 1
  /\ batchID' = [batchID EXCEPT ![p] = 0]
  /\ claim' = [claim EXCEPT ![p] = 0]
  /\ \/ /\ clock' = clock + 1
        /\ LET prev == GetMaxStartTime(batchHistory)
               same == {q \in Senders \ {p} :
                          spc[q] = "create" /\ previousStartTime[q] = prev}
           IN /\ previousStartTime' = [previousStartTime EXCEPT ![p] = prev]
              /\ rivals' = [q \in Senders |->
                              IF q = p THEN same
                              ELSE IF q \in same THEN rivals[q] \cup {p}
                              ELSE rivals[q] \ {p}]
        /\ \E now \in NowReadings(clock + 1) :
              currentTime' = [currentTime EXCEPT ![p] = now]
        /\ selection' = [selection EXCEPT ![p] = <<>>]
        /\ fileName' = [fileName EXCEPT ![p] = NoFileName]
        /\ fd' = [fd EXCEPT ![p] = 0]
        /\ written' = [written EXCEPT ![p] = 0]
        /\ sendResponse' = [sendResponse EXCEPT ![p] = NoSendResponse]
        /\ sendErr' = [sendErr EXCEPT ![p] = ""]
        /\ httpStatus' = [httpStatus EXCEPT ![p] = 0]
        /\ sendBody' = [sendBody EXCEPT ![p] = NoBody]
        /\ spc' = [spc EXCEPT ![p] = "create"]
        /\ UNCHANGED storeFaults
     \/ /\ storeFaults < storeFaultLimit
        /\ storeFaults' = storeFaults + 1
        /\ Return(p, NoSendResponse, "failed to get max start time")
        /\ rivals' = [q \in Senders |-> IF q = p THEN {} ELSE rivals[q] \ {p}]
        /\ UNCHANGED clock
  /\ UNCHANGED <<executions, executionSeq, batchHistory, batchSeq, tradeVars, clientVars,
                 updateVars, listVars, handoffVars, ingestVars, attempts>>

\* A rejected insert that leaves its row behind: C12 rests on the insert
\* being all or nothing.
CreateRejectedRowKept(p, row, err) ==
  /\ Return(p, NoSendResponse, SendCreateErr(err))
  /\ batchHistory' = Append(batchHistory, row)
  /\ UNCHANGED <<batchID, claim, attempts>>

\* A Send that goes on to the selection although the insert of its
\* batch-history row was rejected: C31 rests on the return.
CreateRejectedGoesOn(p, row, err) ==
  /\ spc' = [spc EXCEPT ![p] = "select"]
  /\ UNCHANGED <<batchHistory, batchID, claim, attempts, previousStartTime, currentTime,
                 selection, fileName, fd, written, sendResponse, sendErr, httpStatus,
                 sendBody>>

\* A Send that removes the stored rows its insert collided with: C36 rests on
\* the engines only adding rows.
CreateRejectedRowsRemoved(p, row, err) ==
  /\ Return(p, NoSendResponse, SendCreateErr(err))
  /\ batchHistory' = SelectSeq(batchHistory,
                               LAMBDA r : /\ r.startTime # row.startTime
                                          /\ r.previousStartTime # row.previousStartTime)
  /\ UNCHANGED <<batchID, claim, attempts>>

\* Send when BatchHistoryRepository.Create returns an error.
CreateRejected(p, row, err) ==
  /\ Return(p, NoSendResponse, SendCreateErr(err))
  /\ UNCHANGED <<batchHistory, batchID, claim, attempts>>

\* Send, step 2: BatchHistoryRepository.Create.  The INSERT adds the row, is
\* rejected by a unique index, or fails before it reaches the table.  After
\* an INSERT that added the row, rows.Scan can fail, and Create returns its
\* error with the row stored; or rows.Next() is false, nothing is scanned,
\* and Create returns nil with the ID of the struct left at 0.
CreateBatchHistory(p) ==
  /\ spc[p] = "create"
  /\ LET row == [id |-> batchSeq + 1, startTime |-> currentTime[p],
                 previousStartTime |-> previousStartTime[p], version |-> 1]
         err == BatchHistoryCreateErr(batchHistory, row)
         Stored(id, state) ==
           /\ batchSeq' = batchSeq + 1
           /\ batchHistory' = Append(batchHistory, row)
           /\ batchID' = [batchID EXCEPT ![p] = id]
           /\ claim' = [claim EXCEPT ![p] = Len(attempts) + 1]
           /\ attempts' = Append(attempts,
                [id |-> row.id, prev |-> row.previousStartTime,
                 now |-> row.startTime, selected |-> {}, ran |-> FALSE,
                 state |-> state])
         GoesOn ==
           /\ spc' = [spc EXCEPT ![p] = "select"]
           /\ UNCHANGED <<previousStartTime, currentTime, selection, fileName,
                          fd, written, sendResponse, sendErr, httpStatus, sendBody>>
     IN \/ /\ UNCHANGED storeFaults
           /\ IF err # ""
                THEN /\ batchSeq' = batchSeq + 1
                     /\ CreateRejected(p, row, err)
                ELSE /\ Stored(row.id, "Claimed")
                     /\ GoesOn
        \/ /\ storeFaults < storeFaultLimit
           /\ storeFaults' = storeFaults + 1
           /\ \/ \* the statement fails before it reaches the table
                 /\ UNCHANGED batchSeq
                 /\ CreateRejected(p, row, "failed to create batch history: " \o StatementError)
              \/ \* rows.Scan fails
                 /\ err = ""
                 /\ Stored(0, "Failed")
                 /\ Return(p, NoSendResponse,
                           SendCreateErr("failed to scan batch history ID"))
              \/ \* rows.Next() is false
                 /\ err = ""
                 /\ Stored(0, "Claimed")
                 /\ GoesOn
  /\ UNCHANGED <<executions, executionSeq, clock, tradeVars, clientVars, updateVars, listVars,
                 handoffVars, ingestVars, nsends, rivals>>

\* Send, step 3: GetForBatch and the empty case.
SelectForBatch(p) ==
  /\ spc[p] = "select"
  /\ \/ \E rows \in GetForBatch(executions, previousStartTime[p], currentTime[p]) :
           IF Len(rows) = 0
             THEN /\ Return(p, [ProcessedCount |-> 0, FileName |-> NoFileName,
                                Status |-> "success",
                                Message |-> "No executions to process"], "")
                  /\ SetAttempt(p, "EmptyDone", {}, TRUE)
             ELSE /\ selection' = [selection EXCEPT ![p] = rows]
                  /\ spc' = [spc EXCEPT ![p] = "generate"]
                  /\ SetAttempt(p, "Claimed", IdsOf(rows), TRUE)
                  /\ UNCHANGED <<previousStartTime, currentTime, fileName, fd, written,
                                 sendResponse, sendErr, httpStatus, sendBody>>
     \/ \* the query fails
        /\ Return(p, NoSendResponse, "failed to get executions for batch")
        /\ SetAttempt(p, "Failed", {}, FALSE)
  /\ UNCHANGED <<storeVars, clock, tradeVars, clientVars, updateVars, listVars, handoffVars,
                 ingestVars, batchID, claim, nsends, rivals>>

\* time.Now().Format("20060102_150405"): the reading cut to whole seconds.
TicksPerSecond == 2

FormatSeconds(t) == t \div TicksPerSecond

\* fmt.Sprintf("transactions_%s.csv", timestamp)
FileNameOf(now) == <<"transactions_", FormatSeconds(now), ".csv">>

Header ==
  "portfolio_id,security_id,source_id,transaction_type,quantity,price,transaction_date"

\* executionToCSVLine: the fields of the line.  The pipeline keeps them as
\* they are; the text they are written as is ExecutionToCSVText.
ExecutionToCSVLine(row) ==
  [portfolio_id |-> row.portfolioId, security_id |-> row.securityId,
   source_id |-> <<"AC", row.id>>, transaction_type |-> row.tradeType,
   quantity |-> row.quantity, price |-> row.averagePrice,
   transaction_date |-> row.tradeDate]

FileLines(rows) ==
  <<Header>> \o [k \in 1..Len(rows) |-> ExecutionToCSVLine(rows[k])]

\* os.Create: the file of that name is cut to no lines, or a new file is made
\* under a new inode number.
CreateFile(fs, name, ino) ==
  IF \E f \in fs : f.name = name
    THEN {IF f.name = name THEN [f EXCEPT !.lines = <<>>] ELSE f : f \in fs}
    ELSE fs \cup {[name |-> name, ino |-> ino, lines |-> <<>>]}

\* What a file reads as where nothing was written below a later write.
Hole == "hole"

\* Lines with line stored as number k.  A line stands for its bytes, and all
\* lines count as equally long.
WriteAt(lines, k, line) ==
  [i \in 1..(IF k > Len(lines) THEN k ELSE Len(lines)) |->
     IF i = k THEN line ELSE IF i <= Len(lines) THEN lines[i] ELSE Hole]

\* file.WriteString through a descriptor that is open on the file ino and has
\* written k - 1 lines.  A file that was removed meanwhile has no name left.
WriteString(fs, ino, k, line) ==
  {IF f.ino = ino THEN [f EXCEPT !.lines = WriteAt(@, k, line)] ELSE f : f \in fs}

\* os.Remove
RemoveFile(fs, name) == {f \in fs : f.name # name}

\* FileGeneratorService.CleanupFile: the directories it can leave behind.  A
\* disabled cleanup keeps the file; os.Remove removes it or fails, and the
\* error is all the caller gets.
CleanupFile(fs, name, cleanupEnabled) ==
  IF ~cleanupEnabled THEN {fs} ELSE {RemoveFile(fs, name), fs}

\* Send, step 4, up to os.Create: GeneratePortfolioAccountingFile reads the
\* clock for the name and opens the file; MkdirAll or os.Create can fail.
GenerateFile(p) ==
  /\ spc[p] = "generate"
  /\ clock' = clock + 1
  /\ \E now \in NowReadings(clock + 1) :
       LET name == FileNameOf(now)
       IN \/ /\ files' = CreateFile(files, name, inodes + 1)
             /\ inodes' = IF \E f \in files : f.name = name THEN inodes ELSE inodes + 1
             /\ fileName' = [fileName EXCEPT ![p] = name]
             /\ fd' = [fd EXCEPT ![p] = (CHOOSE f \in files' : f.name = name).ino]
             /\ written' = [written EXCEPT ![p] = 0]
             /\ spc' = [spc EXCEPT ![p] = "write"]
             /\ UNCHANGED <<previousStartTime, currentTime, selection, attempts,
                            sendResponse, sendErr, httpStatus, sendBody>>
          \/ /\ UNCHANGED <<files, inodes>>
             /\ Return(p, NoSendResponse, "failed to generate file")
             /\ SetAttempt(p, "Failed", IdsOf(selection[p]), TRUE)
  /\ UNCHANGED <<storeVars, tradeVars, clientVars, updateVars, listVars, ingestVars,
                 cliCalls, fileCleanupEnabled, cliCommand, batchID, claim, nsends, rivals>>

\* Send, step 4, one file.WriteString: the header, then a line for each
\* execution.  After the last line GeneratePortfolioAccountingFile returns the
\* name; a write that fails leaves the file as it is.
WriteLine(p) ==
  /\ spc[p] = "write"
  /\ LET lines == FileLines(selection[p])
         k == written[p] + 1
     IN \/ /\ files' = WriteString(files, fd[p], k, lines[k])
           /\ written' = [written EXCEPT ![p] = k]
           /\ IF k = Len(lines)
                THEN /\ spc' = [spc EXCEPT ![p] = "invoke"]
                     /\ SetAttempt(p, "Formatted", IdsOf(selection[p]), TRUE)
                ELSE UNCHANGED <<spc, attempts>>
           /\ UNCHANGED <<previousStartTime, currentTime, selection, fileName, fd,
                          sendResponse, sendErr, httpStatus, sendBody>>
        \/ /\ UNCHANGED files
           /\ Return(p, NoSendResponse, "failed to generate file")
           /\ SetAttempt(p, "Failed", IdsOf(selection[p]), TRUE)
  /\ UNCHANGED <<storeVars, clock, tradeVars, clientVars, updateVars, listVars,
                 ingestVars, inodes, cliCalls, fileCleanupEnabled, cliCommand, batchID, claim,
                 nsends, rivals>>

\* The double quote.
Quote == "\""

\* A character of two bytes in UTF-8 (U+00E9, e with acute accent).
TwoByteChar == "U+00E9"

\* utf8.RuneLen
RuneLen(char) == IF char = TwoByteChar THEN 2 ELSE 1

\* parseCommand's loop from character i on: a quote turns inQuotes over and
\* is dropped, a space outside quotes ends the part in hand if there is one,
\* anything else joins the part in hand; and past the last character the part
\* in hand, if any, is added, unless that character was a space outside
\* quotes.  A command is its characters, a word standing for its letters,
\* which take one byte each.  The loop ranges over the string: i is the byte
\* at which the character starts, and i == len(command)-1 holds at the last
\* character only if it takes one byte.
RECURSIVE ParseFrom(_, _, _, _, _)
ParseFrom(command, i, inQuotes, current, parts) ==
  IF i > Len(command) THEN parts
  ELSE LET char == command[i]
           AtEnd(cur) == IF i = Len(command) /\ RuneLen(char) = 1 /\ cur # <<>>
                           THEN Append(parts, cur) ELSE parts
       IN IF char = Quote
            THEN ParseFrom(command, i + 1, ~inQuotes, current, AtEnd(current))
          ELSE IF char = " " /\ ~inQuotes
            THEN IF current # <<>>
                   THEN ParseFrom(command, i + 1, inQuotes, <<>>, Append(parts, current))
                   ELSE ParseFrom(command, i + 1, inQuotes, current, parts)
          ELSE ParseFrom(command, i + 1, inQuotes, Append(current, char),
                         AtEnd(Append(current, char)))

\* parseCommand: the command split at its spaces outside double quotes, the
\* quotes removed.
ParseCommand(command) == ParseFrom(command, 1, FALSE, <<>>, <<>>)

\* What Send returns when the CLI invocation fails.
CLIFailed(p) ==
  [ProcessedCount |-> Len(selection[p]), FileName |-> fileName[p],
   Status |-> "error", Message |-> "CLI invocation failed"]

\* What Send returns at its end.
Sent(p) ==
  [ProcessedCount |-> Len(selection[p]), FileName |-> fileName[p],
   Status |-> "success", Message |-> "Portfolio Accounting CLI executed successfully"]

\* Send, step 5: InvokePortfolioAccountingCLI.  Without a command, or with a
\* command of no parts, nothing is run; a command that is run exits zero, or
\* it exits non-zero or runs into the timeout.
InvokeCLI(p) ==
  /\ spc[p] = "invoke"
  /\ IF cliCommand = <<>> \/ Len(ParseCommand(cliCommand)) = 0
       THEN /\ Return(p, CLIFailed(p), "CLI invocation failed")
            /\ SetAttempt(p, "Failed", IdsOf(selection[p]), TRUE)
            /\ UNCHANGED cliCalls
       ELSE \/ /\ cliCalls' = Append(cliCalls, [fileName |-> fileName[p], ok |-> TRUE])
               /\ spc' = [spc EXCEPT ![p] = "cleanup"]
               /\ UNCHANGED <<previousStartTime, currentTime, selection, fileName,
                              fd, written, attempts, sendResponse, sendErr,
                              httpStatus, sendBody>>
            \/ /\ cliCalls' = Append(cliCalls, [fileName |-> fileName[p], ok |-> FALSE])
               /\ Return(p, CLIFailed(p), "CLI invocation failed")
               /\ SetAttempt(p, "Failed", IdsOf(selection[p]), TRUE)
  /\ UNCHANGED <<storeVars, clock, tradeVars, clientVars, updateVars, listVars,
                 ingestVars, files, inodes, fileCleanupEnabled, cliCommand, batchID, claim,
                 nsends, rivals>>

\* A cleanup that does not look at the flag: C38 rests on the test.
SendCleanupAlways(fs, name, enabled) == CleanupFile(fs, name, TRUE)

\* Send, step 6: if s.config.FileCleanupEnabled { CleanupFile(filename, true) },
\* whose error is logged and dropped.
SendCleanup(fs, name, enabled) ==
  IF enabled THEN CleanupFile(fs, name, TRUE) ELSE {fs}

\* Send, step 6 and the return.
Cleanup(p) ==
  /\ spc[p] = "cleanup"
  /\ files' \in SendCleanup(files, fileName[p], fileCleanupEnabled)
  /\ Return(p, Sent(p), "")
  /\ SetAttempt(p, "Success", IdsOf(selection[p]), TRUE)
  /\ UNCHANGED <<storeVars, clock, tradeVars, clientVars, updateVars, listVars,
                 ingestVars, inodes, cliCalls, fileCleanupEnabled, cliCommand, batchID, claim,
                 nsends, rivals>>

Send(p, cap) ==
  \/ SendStart(p, cap)
  \/ CreateBatchHistory(p)
  \/ SelectForBatch(p)
  \/ GenerateFile(p)
  \/ WriteLine(p)
  \/ InvokeCLI(p)
  \/ Cleanup(p)

Ingest(p, batches, cap) ==
  \/ \E b \in batches : CreateBatch(p, b, cap)
  \/ Probe(p)
  \/ Lookup(p)
  \/ LookupBackoff(p)
  \/ BuildExecution(p)
  \/ CreateExecution(p)

\* ------------------------------------------------------ trade lookup client
\* What one request can come back with: no response at all, or a status and
\* a body.
Responses ==
  { TransportError,
    [status |-> 200, body |-> "json"],
    [status |-> 200, body |-> "invalid json"],
    [status |-> 404, body |-> ""],
    [status |-> 500, body |-> ""] }

\* SetRetryConfig, which main calls with the configured values before the
\* server starts: any number of retries from -1 on, any delay from 0 on.
SetRetryConfig ==
  /\ cpc = "idle"
  /\ \E retries \in -1..MaxClientRetries, delay \in 0..MaxBaseDelay :
        /\ <<retries, delay>> # <<maxRetries, baseDelay>>
        /\ maxRetries' = retries
        /\ baseDelay' = delay
  /\ UNCHANGED <<cpc, attempt, lastErr, clientResult, ctxErr, outcomes, waited,
                 atCancel>>
  /\ UNCHANGED <<storeVars, clock, tradeVars, ingestVars, sendVars, handoffVars,
                 updateVars, listVars>>

\* Entry of executeWithRetry: attempt := 0 and the first test of the loop
\* condition, which with a negative maxRetries ends the call at once, no
\* request made and no error to wrap.
ExecuteWithRetry ==
  /\ cpc = "idle"
  /\ attempt' = 0
  /\ lastErr' = NoErr
  /\ IF LoopCondition(0, maxRetries)
       THEN /\ cpc' = "request"
            /\ UNCHANGED clientResult
       ELSE /\ cpc' = "done"
            /\ clientResult' =
                 [response |-> "", err |-> <<"all retry attempts failed", NoErr.msg>>]
  /\ UNCHANGED <<maxRetries, baseDelay, ctxErr, outcomes, waited, atCancel>>
  /\ UNCHANGED <<storeVars, clock, tradeVars, ingestVars, sendVars, handoffVars,
                 updateVars, listVars>>

\* One pass of the loop body after the wait: the request, and what the loop
\* does with its result.  A request under a context that has ended fails in
\* the transport.
Request ==
  /\ cpc = "request"
  /\ \E r \in (IF ctxErr # "" THEN {TransportError} ELSE Responses) :
        LET err == ExecuteRequest(r)
        IN /\ outcomes' = Append(outcomes, r)
           /\ IF err = NoErr
                THEN /\ clientResult' = [response |-> r.body, err |-> <<>>]
                     /\ cpc' = "done"
                     /\ UNCHANGED <<attempt, lastErr>>
                ELSE /\ lastErr' = err
                     /\ IF IsClientError(err) \/ ~LoopCondition(attempt + 1, maxRetries)
                          THEN /\ clientResult' =
                                    [response |-> "",
                                     err |-> <<"all retry attempts failed", err.msg>>]
                               /\ cpc' = "done"
                               /\ UNCHANGED attempt
                          ELSE /\ attempt' = attempt + 1
                               /\ cpc' = "wait"
                               /\ UNCHANGED clientResult
  /\ UNCHANGED <<maxRetries, baseDelay, ctxErr, waited, atCancel>>
  /\ UNCHANGED <<storeVars, clock, tradeVars, ingestVars, sendVars, handoffVars,
                 updateVars, listVars>>

\* The backoff wait before a retry.
Backoff ==
  /\ cpc = "wait"
  /\ \E branch \in BackoffSelect(ctxErr # "", Delay(attempt, baseDelay)) :
        IF branch = "timer"
          THEN /\ waited' = Append(waited, Delay(attempt, baseDelay))
               /\ cpc' = "request"
               /\ UNCHANGED clientResult
          ELSE /\ clientResult' = [response |-> "", err |-> <<ctxErr>>]
               /\ cpc' = "done"
               /\ UNCHANGED waited
  /\ UNCHANGED <<maxRetries, baseDelay, attempt, lastErr, ctxErr, outcomes, atCancel>>
  /\ UNCHANGED <<storeVars, clock, tradeVars, ingestVars, sendVars, handoffVars,
                 updateVars, listVars>>

\* The caller's context ends: it is cancelled or its deadline passes.
Cancel ==
  /\ ctxErr = ""
  /\ cpc \in {"request", "wait"}
  /\ \E e \in {"context canceled", "context deadline exceeded"} : ctxErr' = e
  /\ atCancel' = IF cpc = "wait" THEN <<Len(outcomes), Len(waited)>> ELSE <<>>
  /\ UNCHANGED <<maxRetries, baseDelay, cpc, attempt, lastErr, clientResult,
                 outcomes, waited>>
  /\ UNCHANGED <<storeVars, clock, tradeVars, ingestVars, sendVars, handoffVars,
                 updateVars, listVars>>

\* ------------------------------------------------------- the text of a file
\* A text is a sequence of characters.  An element that is not a comma, a
\* double quote or a newline stands for one ordinary character, or for a run
\* of them (the names of the header).
Comma == ","
Newline == "\n"

\* The characters of the string fields: an ordinary one, and the two that
\* call for quoting.  Control characters are left out.
FieldChars == {"a", Comma, Quote}

\* The strings of up to n characters.
Strings(n) == UNION {[1..k -> FieldChars] : k \in 0..n}

Digits == <<"0", "1", "2", "3", "4", "5", "6", "7", "8", "9">>

\* The decimal digits of n, at least w of them.
RECURSIVE FormatInt(_, _)
FormatInt(n, w) ==
  IF n < 10 /\ w <= 1 THEN <<Digits[n + 1]>>
  ELSE FormatInt(n \div 10, w - 1) \o <<Digits[(n % 10) + 1]>>

\* A quantity or a price of a row is the value its DECIMAL(18,8) column
\* holds: whole units and hundred-millionths.  The units of the model stay
\* below 2^31.
Scale8 == 100000000

Decimal(units, frac) == [units |-> units, frac |-> frac]

\* 5^8; Scale8 is 2^8 * 5^8.
Pow5To8 == 390625

\* The exponent of a float64 v, for 2^26 <= v < 2^31.
Exponent(units) == CHOOSE e \in 26..30 : units \div 2^e = 1

\* (q + r/d) * c^t as a whole part and a remainder over d.
RECURSIVE Scaled(_, _, _, _, _)
Scaled(q, r, d, c, t) ==
  IF t = 0 THEN <<q, r>>
  ELSE Scaled(c * q + (c * r) \div d, (c * r) % d, d, c, t - 1)

\* The Quantity and AveragePrice of a row are float64: the scan of the column
\* (strconv.ParseFloat) gives the float64 nearest to the value.  A float64 of
\* exponent e has 52 - e fraction bits; the fraction of the nearest one, in
\* units of 2^-(52 - e), for a value of 2^26 or more.
Float64Fraction(v) ==
  LET bits == 52 - Exponent(v.units)
      x == Scaled(v.frac \div Pow5To8, v.frac % Pow5To8, Pow5To8, 2, bits - 8)
  IN IF 2 * x[2] > Pow5To8 THEN x[1] + 1 ELSE x[1]

\* %.8f of a float64 units + k / 2^bits: its exact decimal expansion rounded
\* to eight decimals, half to even, as hundred-millionths.
RoundTo8(k, bits) ==
  LET m == 2^(bits - 8)
      y == Scaled(k \div m, k % m, m, 5, 8)
  IN IF 2 * y[2] > m \/ (2 * y[2] = m /\ y[1] % 2 = 1) THEN y[1] + 1 ELSE y[1]

\* fmt.Sprintf("%.8f", v) of the float64 a row holds for the value v.  Below
\* 2^26 the float64 is within 2^-28 of v, less than half a hundred-millionth,
\* and the digits are those of v; from 2^26 on the float64s lie further
\* apart than the values.
FormatFixed8(v) ==
  LET rounded ==
        IF v.units < 2^26 THEN v
        ELSE LET f == RoundTo8(Float64Fraction(v), 52 - Exponent(v.units))
             IN IF f = Scale8 THEN Decimal(v.units + 1, 0) ELSE Decimal(v.units, f)
  IN FormatInt(rounded.units, 1) \o <<".">> \o FormatInt(rounded.frac, 8)

\* Format("2006-01-02") of a date; day 1 is 2024-01-15 and the dates of the
\* model stay within that month.
FormatDate(d) == <<"2", "0", "2", "4", "-", "0", "1", "-">> \o FormatInt(14 + d, 2)

\* fmt.Sprintf("AC%d", execution.ID)
SourceID(id) == <<"A", "C">> \o FormatInt(id, 1)

RECURSIVE ReplaceAllQuotes(_)
ReplaceAllQuotes(field) ==
  IF field = <<>> THEN <<>>
  ELSE (IF Head(field) = Quote THEN <<Quote, Quote>> ELSE <<Head(field)>>)
       \o ReplaceAllQuotes(Tail(field))

NeedsEscape(field) ==
  \E k \in 1..Len(field) : field[k] \in {Comma, Quote, Newline}

\* The escaping loop of executionToCSVLine, for one field.
EscapeField(field) ==
  IF NeedsEscape(field)
    THEN <<Quote>> \o ReplaceAllQuotes(field) \o <<Quote>>
    ELSE field

\* strings.Join(fields, ",")
RECURSIVE Join(_)
Join(fields) ==
  IF Len(fields) = 1 THEN fields[1]
  ELSE fields[1] \o <<Comma>> \o Join(Tail(fields))

\* executionToCSVLine as text, for a row whose string fields are sequences of
\* characters.
ExecutionToCSVText(row) ==
  Join([k \in 1..7 |->
          EscapeField(<< row.portfolioId, row.securityId, SourceID(row.id),
                         row.tradeType, FormatFixed8(row.quantity),
                         FormatFixed8(row.averagePrice),
                         FormatDate(row.tradeDate) >>[k])])
  \o <<Newline>>

\* The header line; each column name is one symbol of the text.
HeaderText ==
  << "portfolio_id", Comma, "security_id", Comma, "source_id", Comma,
     "transaction_type", Comma, "quantity", Comma, "price", Comma,
     "transaction_date", Newline >>

\* The content of the file GeneratePortfolioAccountingFile writes.
RECURSIVE FileText(_)
FileText(rows) ==
  IF rows = <<>> THEN HeaderText
  ELSE FileText(SubSeq(rows, 1, Len(rows) - 1)) \o ExecutionToCSVText(rows[Len(rows)])

\* The rows handed to the file generator: a first row with any strings of up
\* to MaxFieldLen characters as portfolio and security id and a quantity
\* below, at and above 2^26, and possibly a second row.
CSVRow(id, pid, sid, type, q, price, date) ==
  [id |-> id, portfolioId |-> pid, securityId |-> sid, tradeType |-> type,
   quantity |-> q, averagePrice |-> price, tradeDate |-> date]

CSVQuantities ==
  { Decimal(0, 1), Decimal(1, 50000000), Decimal(67108863, 99999999),
    Decimal(67108864, 2), Decimal(67108864, 195312), Decimal(2147483646, 99999999) }

CSVFirstRows ==
  { CSVRow(id, pid, sid, type, q, Decimal(1, 50000000), date) :
      id \in {1, 12}, pid \in Strings(MaxFieldLen), sid \in Strings(MaxFieldLen),
      type \in {<<"B", "U", "Y">>, <<"S", "E", "L", "L">>},
      q \in CSVQuantities, date \in {0, 1} }

CSVSecondRows ==
  { CSVRow(2, <<"a">>, <<Quote>>, <<"B", "U", "Y">>, Decimal(1, 0), Decimal(0, 1), 1),
    CSVRow(3, <<Comma, Quote>>, <<>>, <<"S", "E", "L", "L">>,
           Decimal(0, 10050000), Decimal(134217728, 3), 0) }

CSVInputs ==
  { <<r>> : r \in CSVFirstRows } \cup
  { <<r, t>> : r \in CSVFirstRows, t \in CSVSecondRows }

\* GeneratePortfolioAccountingFile called with rows as GetForBatch reads
\* them, up to os.Create; the file holds the text.  The call fails
\* for no rows and when MkdirAll or os.Create fails.
GenerateText(p) ==
  /\ spc[p] = "idle"
  /\ \E rows \in CSVInputs \cup {<<>>} :
        /\ selection' = [selection EXCEPT ![p] = rows]
        /\ IF rows = <<>>
             THEN /\ sendErr' = [sendErr EXCEPT ![p] = "no executions to process"]
                  /\ spc' = [spc EXCEPT ![p] = "done"]
                  /\ UNCHANGED <<clock, files, inodes, fileName, fd>>
             ELSE /\ clock' = clock + 1
                  /\ \E now \in NowReadings(clock + 1) :
                       LET name == FileNameOf(now)
                       IN \/ /\ files' = CreateFile(files, name, inodes + 1)
                             /\ inodes' = IF \E f \in files : f.name = name
                                             THEN inodes ELSE inodes + 1
                             /\ fileName' = [fileName EXCEPT ![p] = name]
                             /\ fd' = [fd EXCEPT ![p] =
                                         (CHOOSE f \in files' : f.name = name).ino]
                             /\ spc' = [spc EXCEPT ![p] = "text"]
                             /\ UNCHANGED sendErr
                          \/ /\ \E e \in {"failed to create output directory",
                                          "failed to create file"} :
                                   sendErr' = [sendErr EXCEPT ![p] = e]
                             /\ spc' = [spc EXCEPT ![p] = "done"]
                             /\ UNCHANGED <<files, inodes, fileName, fd>>
  /\ UNCHANGED <<storeVars, tradeVars, clientVars, updateVars, listVars,
                 ingestVars, cliCalls, fileCleanupEnabled, cliCommand,
                 previousStartTime, currentTime, batchID, claim, sendResponse,
                 httpStatus, attempts, nsends, rivals, sendBody, written>>

\* One file.WriteString of that call: the header, then the line of each row,
\* added to the text of the file.  After the last line the call returns the
\* name; a write that fails leaves the file as it is and the call returns no
\* name.
WriteText(p) ==
  /\ spc[p] = "text"
  /\ LET rows == selection[p]
         k == written[p] + 1
         text == IF k = 1 THEN HeaderText ELSE ExecutionToCSVText(rows[k - 1])
     IN \/ /\ files' = {IF f.ino = fd[p] THEN [f EXCEPT !.lines = @ \o text] ELSE f :
                           f \in files}
           /\ IF k = Len(rows) + 1
                THEN /\ spc' = [spc EXCEPT ![p] = "done"]
                     /\ written' = [written EXCEPT ![p] = 0]
                     /\ fd' = [fd EXCEPT ![p] = 0]
                ELSE /\ written' = [written EXCEPT ![p] = k]
                     /\ UNCHANGED <<spc, fd>>
           /\ UNCHANGED <<sendErr, fileName>>
        \/ /\ sendErr' = [sendErr EXCEPT ![p] =
                             IF k = 1 THEN "failed to write header"
                             ELSE "failed to write execution line"]
           /\ fileName' = [fileName EXCEPT ![p] = NoFileName]
           /\ spc' = [spc EXCEPT ![p] = "done"]
           /\ written' = [written EXCEPT ![p] = 0]
           /\ fd' = [fd EXCEPT ![p] = 0]
           /\ UNCHANGED files
  /\ UNCHANGED <<storeVars, clock, tradeVars, clientVars, updateVars, listVars,
                 ingestVars, inodes, cliCalls, fileCleanupEnabled, cliCommand,
                 previousStartTime, currentTime, batchID, claim, selection, sendResponse,
                 httpStatus, attempts, nsends, rivals, sendBody>>

\* -------------------------------------------------------------------- list
DefaultLimit == 50

MaxLimit == 1000

\* A query parameter as it is written in the URL: n in decimal digits.
QueryInt(n) == IF n < 0 THEN <<"-">> \o FormatInt(0 - n, 1) ELSE FormatInt(n, 1)

DigitOf(c) == CHOOSE k \in 0..9 : Digits[k + 1] = c

\* The number a run of decimal digits spells.
RECURSIVE DigitsValue(_)
DigitsValue(ds) ==
  IF ds = <<>> THEN 0
  ELSE 10 * DigitsValue(SubSeq(ds, 1, Len(ds) - 1)) + DigitOf(ds[Len(ds)])

\* The digits of 1<<63 - 1, the largest int (strconv.IntSize is 64), of 1<<63
\* and of 1<<64 - 1, the largest uint64.
MaxInt64Digits ==
  <<"9", "2", "2", "3", "3", "7", "2", "0", "3", "6", "8", "5", "4", "7", "7",
    "5", "8", "0", "7">>

MinInt64Digits == [MaxInt64Digits EXCEPT ![19] = "8"]

MaxUint64Digits ==
  <<"1", "8", "4", "4", "6", "7", "4", "4", "0", "7", "3", "7", "0", "9", "5",
    "5", "1", "6", "1", "5">>

\* The ints 1<<63 - 1 and -1<<63, which the integers of the model do not
\* hold, by name.
MaxInt64 == "1<<63 - 1"
MinInt64 == "-1<<63"

RECURSIVE StripZeros(_)
StripZeros(ds) ==
  IF Len(ds) > 1 /\ Head(ds) = "0" THEN StripZeros(Tail(ds)) ELSE ds

\* The number the digits ds spell is above the one the digits limit spell.
Above(ds, limit) ==
  LET sig == StripZeros(ds)
  IN \/ Len(sig) > Len(limit)
     \/ /\ Len(sig) = Len(limit)
        /\ \E k \in 1..Len(sig) :
              /\ DigitOf(sig[k]) > DigitOf(limit[k])
              /\ \A j \in 1..(k - 1) : sig[j] = limit[j]

\* strconv.Atoi: an optional sign, then ParseUint reads the rest byte by byte
\* and returns at the first byte that is no digit (syntax error, also for no
\* digits at all) or with which the number read so far passes 1<<64 - 1
\* (range error), whichever comes first; a number that was read to its end
\* and is outside the range of int is a range error too.  A range error
\* comes with the nearest int.  A number read so far has to have the twenty
\* digits of 1<<64 - 1 to pass it.
Atoi(str) ==
  LET signed == str # <<>> /\ str[1] \in {"-", "+"}
      neg == signed /\ str[1] = "-"
      ds == IF signed THEN Tail(str) ELSE str
      isDigit(c) == \E k \in 1..10 : Digits[k] = c
      rangeError == [n |-> IF neg THEN MinInt64 ELSE MaxInt64,
                     err |-> "value out of range"]
  IN IF \E k \in Len(MaxUint64Digits)..Len(ds) :
          /\ \A j \in 1..k : isDigit(ds[j])
          /\ Above(SubSeq(ds, 1, k), MaxUint64Digits)
       THEN rangeError
     ELSE IF ds = <<>> \/ \E k \in 1..Len(ds) : ~isDigit(ds[k])
       THEN [n |-> 0, err |-> "invalid syntax"]
     ELSE IF Above(ds, IF neg THEN MinInt64Digits ELSE MaxInt64Digits)
       THEN rangeError
       ELSE [n |-> IF neg THEN 0 - DigitsValue(ds) ELSE DigitsValue(ds),
             err |-> ""]

\* ExecutionRepository.List, first statement: SELECT COUNT(*) FROM execution.
ListCount(rows) == Len(rows)

\* ExecutionRepository.List, second statement: the page of ORDER BY id DESC
\* LIMIT limit OFFSET offset.
ListSelect(rows, limit, offset) ==
  LET n == Len(rows)
      desc == [k \in 1..n |-> rows[n + 1 - k]]
      last == IF offset + limit < n THEN offset + limit ELSE n
  IN SubSeq(desc, offset + 1, last)

\* The pagination of ExecutionService.List.
PaginationInfo(totalCount, limit, offset) ==
  [TotalElements |-> totalCount,
   TotalPages |-> (totalCount + limit - 1) \div limit,
   CurrentPage |-> offset \div limit,
   PageSize |-> limit,
   HasNext |-> offset + limit < totalCount,
   HasPrevious |-> offset > 0]

\* ExecutionService.List: the limit as it is defaulted and capped.
ListLimit(limit) ==
  IF limit <= 0 THEN DefaultLimit ELSE IF limit > MaxLimit THEN MaxLimit ELSE limit

\* ExecutionService.List after the repository has returned: the rows as DTOs
\* and the pagination.
List(page, totalCount, limit, offset) ==
  [executions |-> [k \in 1..Len(page) |-> page[k].id],
   pagination |-> PaginationInfo(totalCount, limit, offset)]

\* writeErrorResponse of the list endpoint.
ListError(status, limit, offset, message) ==
  [NoListResponse EXCEPT !.status = status, !.limit = limit, !.offset = offset,
                         !.message = message]

\* ExecutionHandler.GetExecutions with the query parameters limit and offset
\* as they are written, up to the first statement of the repository: the
\* parameters are parsed and validated, and the rows are counted.
GetExecutions(limitStr, offsetStr) ==
  /\ listCall.pc = "idle"
  /\ LET parsedLimit == Atoi(limitStr)
         parsedOffset == Atoi(offsetStr)
         limit == IF limitStr = <<>> THEN DefaultLimit ELSE parsedLimit.n
         offset == IF offsetStr = <<>> THEN 0 ELSE parsedOffset.n
     IN IF limitStr # <<>> /\ parsedLimit.err # ""
          THEN /\ listResponse' = ListError(400, 0, 0, "invalid limit parameter")
               /\ UNCHANGED listCall
        ELSE IF offsetStr # <<>> /\ parsedOffset.err # ""
          THEN /\ listResponse' = ListError(400, limit, 0, "invalid offset parameter")
               /\ UNCHANGED listCall
        ELSE IF limit < 1 \/ limit > MaxLimit
          THEN /\ listResponse' =
                    ListError(400, limit, offset, "limit must be between 1 and 1000")
               /\ UNCHANGED listCall
        ELSE IF offset < 0
          THEN /\ listResponse' =
                    ListError(400, limit, offset, "offset must be non-negative")
               /\ UNCHANGED listCall
        ELSE \/ /\ listCall' = [pc |-> "page", limit |-> limit, offset |-> offset,
                                 totalCount |-> ListCount(executions)]
                /\ listResponse' = NoListResponse
             \/ /\ listResponse' =
                     ListError(500, limit, offset, "failed to retrieve executions")
                /\ UNCHANGED listCall
  /\ UNCHANGED <<storeVars, clock, tradeVars, ingestVars, sendVars, handoffVars,
                 clientVars, updateVars>>

\* The second statement of ExecutionRepository.List, read after whatever was
\* committed since the count, and the response ExecutionService.List and the
\* handler make of the two.
ListPage ==
  /\ listCall.pc = "page"
  /\ LET limit == listCall.limit
         offset == listCall.offset
         r == List(ListSelect(executions, ListLimit(limit), offset),
                   listCall.totalCount, ListLimit(limit), offset)
     IN \/ listResponse' =
             [status |-> 200, limit |-> limit, offset |-> offset, message |-> "",
              executions |-> r.executions, pagination |-> r.pagination]
        \/ listResponse' =
             ListError(500, limit, offset, "failed to retrieve executions")
  /\ listCall' = NoListCall
  /\ UNCHANGED <<storeVars, clock, tradeVars, ingestVars, sendVars, handoffVars,
                 clientVars, updateVars>>

\* ----------------------------------------------------- repository callers
\* held and ures are the struct a caller holds and the result of its last
\* call: the id and version it supplied, and the error.
\* ExecutionRepository.GetByID: the row of that id; or nil and an error, when
\* no row has the id and when the SELECT fails.
GetByID(u) ==
  /\ upc[u] \in {"idle", "done", "updated"}
  /\ \E id \in 1..(executionSeq + 1) :
        LET found == {n \in 1..Len(executions) : executions[n].id = id}
            Nil(err) ==
              /\ held' = [held EXCEPT ![u] = NoExecution]
              /\ ures' = [ures EXCEPT ![u] = [id |-> id, version |-> 0, err |-> err]]
              /\ upc' = [upc EXCEPT ![u] = "done"]
        IN \/ /\ UNCHANGED storeFaults
              /\ IF found = {}
                   THEN Nil("execution not found")
                   ELSE /\ held' = [held EXCEPT ![u] = executions[CHOOSE n \in found : TRUE]]
                        /\ ures' = [ures EXCEPT ![u] = [id |-> id, version |-> 0, err |-> ""]]
                        /\ upc' = [upc EXCEPT ![u] = "loaded"]
           \/ /\ storeFaults < storeFaultLimit
              /\ storeFaults' = storeFaults + 1
              /\ Nil("failed to get execution")
  /\ UNCHANGED <<executions, executionSeq, batchHistory, batchSeq, clock, tradeVars,
                 ingestVars, sendVars, handoffVars, clientVars, listVars>>

\* The structs a caller passes to Update: the one GetByID gave it with a
\* quantity of its own, or one it built for an id the table does not hold.
UpdateArguments(u) ==
  (IF upc[u] = "loaded"
     THEN {[held[u] EXCEPT !.quantity = q] : q \in {100, 200}} ELSE {})
  \cup {[id |-> executionSeq + 1, executionServiceId |-> 0, quantity |-> 100,
         version |-> 1]}

\* An UPDATE without the version in its WHERE clause: C27 rests on it.
UpdateWhereIdOnly(row, e) == row.id = e.id

\* WHERE id = :id AND version = :version
UpdateWhere(row, e) == row.id = e.id /\ row.version = e.version

\* The SET clause: every column but id and execution_service_id, and
\* version = :version + 1.
UpdateSet(row, e) ==
  [e EXCEPT !.executionServiceId = row.executionServiceId, !.version = e.version + 1]

\* ExecutionRepository.Update: one UPDATE statement, then the test of the
\* rows affected and the increment of the struct's version.  The statement
\* can fail before it reaches the table, and the count of the rows affected
\* can fail to be read after it has run.
Update(u, cap) ==
  /\ \E e \in UpdateArguments(u) :
        /\ e.version <= cap
        /\ LET affected == {n \in 1..Len(executions) : UpdateWhere(executions[n], e)}
               updated == [n \in 1..Len(executions) |->
                             IF n \in affected THEN UpdateSet(executions[n], e)
                             ELSE executions[n]]
               Returns(err) ==
                 /\ ures' = [ures EXCEPT ![u] =
                               [id |-> e.id, version |-> e.version, err |-> err]]
                 /\ held' = [held EXCEPT ![u] =
                               IF err = "" THEN [e EXCEPT !.version = e.version + 1]
                               ELSE e]
           IN \/ /\ executions' = updated
                 /\ UNCHANGED storeFaults
                 /\ IF affected = {}
                      THEN Returns("execution not found or version conflict")
                      ELSE Returns("")
              \/ /\ storeFaults < storeFaultLimit
                 /\ storeFaults' = storeFaults + 1
                 /\ \/ /\ executions' = executions
                       /\ Returns("failed to update execution")
                    \/ /\ executions' = updated
                       /\ Returns("failed to get rows affected")
  /\ upc' = [upc EXCEPT ![u] = "updated"]
  /\ UNCHANGED <<executionSeq, batchHistory, batchSeq, clock, tradeVars, ingestVars,
                 sendVars, handoffVars, clientVars, listVars>>

\* ExecutionRepository.Delete: DELETE FROM execution WHERE id = $1, then the
\* test of the rows affected.
Delete(u) ==
  /\ upc[u] \in {"idle", "done", "updated"}
  /\ \E id \in 1..(executionSeq + 1) :
        LET affected == {n \in 1..Len(executions) : executions[n].id = id}
            remaining == SelectSeq(executions, LAMBDA row : row.id # id)
        IN \/ /\ executions' = remaining
              /\ UNCHANGED storeFaults
              /\ ures' = [ures EXCEPT ![u] =
                            [id |-> id, version |-> 0,
                             err |-> IF affected = {} THEN "execution not found" ELSE ""]]
           \/ /\ storeFaults < storeFaultLimit
              /\ storeFaults' = storeFaults + 1
              /\ \/ /\ executions' = executions
                    /\ ures' = [ures EXCEPT ![u] =
                                  [id |-> id, version |-> 0,
                                   err |-> "failed to delete execution"]]
                 \/ /\ executions' = remaining
                    /\ ures' = [ures EXCEPT ![u] =
                                  [id |-> id, version |-> 0,
                                   err |-> "failed to get rows affected"]]
  /\ upc' = [upc EXCEPT ![u] = "done"]
  /\ held' = [held EXCEPT ![u] = NoExecution]
  /\ UNCHANGED <<executionSeq, batchHistory, batchSeq, clock, tradeVars, ingestVars,
                 sendVars, handoffVars, clientVars, listVars>>

\* BatchHistoryRepository.GetByID: the row of that id; or nil and an error,
\* when no row has the id and when the SELECT fails.
GetBatchHistoryByID(u) ==
  /\ upc[u] \in {"idle", "done", "updated"}
  /\ \E id \in 1..(batchSeq + 1) :
        LET found == {n \in 1..Len(batchHistory) : batchHistory[n].id = id}
            Nil(err) ==
              /\ held' = [held EXCEPT ![u] = NoExecution]
              /\ ures' = [ures EXCEPT ![u] = [id |-> id, version |-> 0, err |-> err]]
              /\ upc' = [upc EXCEPT ![u] = "done"]
        IN \/ /\ UNCHANGED storeFaults
              /\ IF found = {}
                   THEN Nil("batch history not found")
                   ELSE /\ held' = [held EXCEPT ![u] =
                                      batchHistory[CHOOSE n \in found : TRUE]]
                        /\ ures' = [ures EXCEPT ![u] = [id |-> id, version |-> 0, err |-> ""]]
                        /\ upc' = [upc EXCEPT ![u] = "loadedBatch"]
           \/ /\ storeFaults < storeFaultLimit
              /\ storeFaults' = storeFaults + 1
              /\ Nil("failed to get batch history")
  /\ UNCHANGED <<executions, executionSeq, batchHistory, batchSeq, clock, tradeVars,
                 ingestVars, sendVars, handoffVars, clientVars, listVars>>

\* The structs a caller passes to the batch-history Update: the one GetByID
\* gave it with a start time of its own or the start time of another row, or
\* one it built for an id the table does not hold.
UpdateBatchHistoryArguments(u) ==
  (IF upc[u] = "loadedBatch"
     THEN {[held[u] EXCEPT !.startTime = batchHistory[m].startTime + d] :
             m \in 1..Len(batchHistory), d \in {0, 1}}
     ELSE {})
  \cup {[id |-> batchSeq + 1, startTime |-> 1, previousStartTime |-> ZeroTime,
         version |-> 1]}

\* BatchHistoryRepository.Update: UPDATE batch_history SET start_time,
\* previous_start_time, version = :version + 1 WHERE id = :id AND version =
\* :version.  The statement fails when the new times collide with another
\* row under a unique index, or before it reaches the table.
UpdateBatchHistory(u, cap) ==
  /\ \E b \in UpdateBatchHistoryArguments(u) :
        /\ b.version <= cap
        /\ LET affected == {n \in 1..Len(batchHistory) :
                              /\ batchHistory[n].id = b.id
                              /\ batchHistory[n].version = b.version}
               others == SelectSeq(batchHistory, LAMBDA row : row.id # b.id)
               updated == [n \in 1..Len(batchHistory) |->
                             IF n \in affected THEN [b EXCEPT !.version = b.version + 1]
                             ELSE batchHistory[n]]
               Returns(err) ==
                 /\ ures' = [ures EXCEPT ![u] =
                               [id |-> b.id, version |-> b.version, err |-> err]]
                 /\ held' = [held EXCEPT ![u] =
                               IF err = "" THEN [b EXCEPT !.version = b.version + 1]
                               ELSE b]
           IN \/ /\ UNCHANGED storeFaults
                 /\ IF affected # {} /\ BatchUniqueViolation(others, b)
                      THEN /\ Returns("failed to update batch history")
                           /\ UNCHANGED batchHistory
                      ELSE /\ batchHistory' = updated
                           /\ IF affected = {}
                                THEN Returns("batch history not found or version conflict")
                                ELSE Returns("")
              \/ /\ storeFaults < storeFaultLimit
                 /\ storeFaults' = storeFaults + 1
                 /\ \/ /\ Returns("failed to update batch history")
                       /\ UNCHANGED batchHistory
                    \/ /\ ~(affected # {} /\ BatchUniqueViolation(others, b))
                       /\ batchHistory' = updated
                       /\ Returns("failed to get rows affected")
  /\ upc' = [upc EXCEPT ![u] = "updated"]
  /\ UNCHANGED <<executions, executionSeq, batchSeq, clock, tradeVars, ingestVars,
                 sendVars, handoffVars, clientVars, listVars>>

\* BatchHistoryRepository.Delete: DELETE FROM batch_history WHERE id = $1,
\* then the test of the rows affected.
DeleteBatchHistory(u) ==
  /\ upc[u] \in {"idle", "done", "updated"}
  /\ \E id \in 1..(batchSeq + 1) :
        LET affected == {n \in 1..Len(batchHistory) : batchHistory[n].id = id}
            remaining == SelectSeq(batchHistory, LAMBDA row : row.id # id)
        IN \/ /\ batchHistory' = remaining
              /\ UNCHANGED storeFaults
              /\ ures' = [ures EXCEPT ![u] =
                            [id |-> id, version |-> 0,
                             err |-> IF affected = {} THEN "batch history not found"
                                     ELSE ""]]
           \/ /\ storeFaults < storeFaultLimit
              /\ storeFaults' = storeFaults + 1
              /\ \/ /\ batchHistory' = batchHistory
                    /\ ures' = [ures EXCEPT ![u] =
                                  [id |-> id, version |-> 0,
                                   err |-> "failed to delete batch history"]]
                 \/ /\ batchHistory' = remaining
                    /\ ures' = [ures EXCEPT ![u] =
                                  [id |-> id, version |-> 0,
                                   err |-> "failed to get rows affected"]]
  /\ upc' = [upc EXCEPT ![u] = "done"]
  /\ held' = [held EXCEPT ![u] = NoExecution]
  /\ UNCHANGED <<executions, executionSeq, batchSeq, clock, tradeVars, ingestVars,
                 sendVars, handoffVars, clientVars, listVars>>

\* ---------------------------------------------------------- specifications
\* The pipeline: one ingesting caller and two sending callers, which make
\* MaxPipelineCalls calls between them, and storeFaultLimit fewer against a
\* store that may fail that many statements.
SingleBatches == {<<BaseDTO(1, FALSE)>>, <<BaseDTO(2, FALSE)>>}

Next ==
  \/ Ingest("i1", SingleBatches, MaxPipelineCalls - nsends - storeFaultLimit)
  \/ \E p \in Senders : Send(p, MaxPipelineCalls - icalls - storeFaultLimit)

\* The pipeline starts with a Trade Service that answers, and with a store
\* that returns from every statement or fails up to MaxStoreFaults of them.
InitPipeline == Init /\ outage = 0

Spec == InitPipeline /\ [][Next]_vars

\* The window claim alone: two sending callers on an empty execution table.
NextClaim ==
  \E p \in Senders :
     \/ SendStart(p, MaxClaims)
     \/ CreateBatchHistory(p)
     \/ SelectForBatch(p)

SpecClaim == Init /\ [][NextClaim]_vars

\* Concurrent ingestion: two callers, batches of closed valid records.
NextIngest == \E p \in Ingesters : Ingest(p, SeqsUpTo(ClosedDTOs, MaxBatch), MaxCalls)

\* The service on a store that returns from every statement.
InitHealthy == Init /\ Healthy

SpecIngest == InitHealthy /\ [][NextIngest]_vars

\* Sequential ingestion: one caller seeds the store with one closed record,
\* ingests a batch of any records and then retries that batch, against any
\* Trade Service.
SeqBatches == SeqsUpTo(ClosedDTOs \cup OpenDTOs \cup InvalidDTOs, MaxSeqBatch)

InitSeq ==
  /\ InitStore
  /\ InitIngest
  /\ InitSend
  /\ InitHandoff
  /\ InitUpdate
  /\ InitList
  /\ InitClient
  /\ tradeService \in [1..MaxEsid -> TradeAnswers]

NextSeq ==
  \/ /\ icalls = 0
     /\ \E b \in SingleBatches : CreateBatch("i1", b, 1)
  \/ /\ icalls = 1
     /\ \E b \in SeqBatches : CreateBatch("i1", b, 2)
  \/ /\ icalls >= 2
     /\ CreateBatch("i1", batch["i1"], 2 + MaxRetries)
  \/ Probe("i1")
  \/ Lookup("i1")
  \/ LookupBackoff("i1")
  \/ BuildExecution("i1")
  \/ CreateExecution("i1")

SpecSeq == InitSeq /\ [][NextSeq]_vars

\* Batch sizes: one caller with batches of 0, 1, MaxBatchSize and
\* MaxBatchSize + 1 records of every kind, against any Trade Service.
SizedKinds ==
  << BaseDTO(1, FALSE), BaseDTO(1, TRUE),
     [BaseDTO(1, FALSE) EXCEPT !.quantity = 0],
     BaseDTO(2, FALSE), BaseDTO(0, FALSE) >>

SizedBatch(n) == [k \in 1..n |-> SizedKinds[((k - 1) % Len(SizedKinds)) + 1]]

SizedBatches == {SizedBatch(n) : n \in {0, 1, MaxBatchSize, MaxBatchSize + 1}}

NextSize == Ingest("i1", SizedBatches, MaxSizedCalls)

\* The same start on a store that returns from every statement.
InitSized == InitSeq /\ Healthy

SpecSize == InitSized /\ [][NextSize]_vars

\* The trade lookup client: one call of executeWithRetry under every retry
\* configuration SetRetryConfig can leave, against a server that answers each request in any way, with
\* a caller whose context may end at any moment.
InitRetry ==
  /\ InitStore
  /\ InitIngest
  /\ InitSend
  /\ InitHandoff
  /\ InitUpdate
  /\ InitList
  /\ InitClient
  /\ tradeService = [e \in 1..MaxEsid |-> Resolved]

NextRetry ==
  \/ SetRetryConfig
  \/ ExecuteWithRetry
  \/ Request
  \/ Backoff
  \/ Cancel

\* The client makes no store call.
InitLookupCall == InitRetry /\ Healthy

SpecRetry == InitLookupCall /\ [][NextRetry]_vars

\* The handler alone: SendExecutions applied to whatever a service behind
\* it can return, as (response, err).  The statuses are the two of the code
\* ("success", "error") and the "empty" of the specification; the errors are
\* the ones Send wraps, and the one the handler compares with.
ServiceResults ==
  { [resp |-> [ProcessedCount |-> n, FileName |-> <<"transactions_", 1, ".csv">>,
               Status |-> "success",
               Message |-> "Portfolio Accounting CLI executed successfully"],
     err |-> ""] : n \in 1..2 }
  \cup
  { [resp |-> [ProcessedCount |-> 0, FileName |-> NoFileName, Status |-> st,
               Message |-> "No executions to process"],
     err |-> ""] : st \in {"success", "empty"} }
  \cup
  { [resp |-> [ProcessedCount |-> 1, FileName |-> <<"transactions_", 1, ".csv">>,
               Status |-> "error", Message |-> "CLI invocation failed"],
     err |-> e] : e \in {"", "CLI invocation failed"} }
  \cup
  { [resp |-> NoSendResponse, err |-> e] :
      e \in {"duplicate batch process already started",
             "failed to create batch history",
             "failed to get max start time",
             "failed to get executions for batch",
             "failed to generate file"} }

SendExecutions(p) ==
  /\ spc[p] \in {"idle", "done"}
  /\ nsends < MaxHandlerCalls
  /\ nsends' = nsends + 1
  /\ \E r \in ServiceResults : Return(p, r.resp, r.err)
  /\ UNCHANGED <<storeVars, clock, tradeVars, clientVars, updateVars, listVars, handoffVars,
                 ingestVars, batchID, claim, attempts, rivals>>

NextHandler == \E p \in Senders : SendExecutions(p)

SpecHandler == InitHealthy /\ [][NextHandler]_vars

\* The file generator alone, on rows whose string fields are spelled out.
\* The output directory is empty, or holds a file an earlier call left under
\* the name of this call.
InitCSV ==
  /\ InitStore
  /\ InitIngest
  /\ InitSend
  /\ InitUpdate
  /\ InitList
  /\ InitClient
  /\ tradeService = [e \in 1..MaxEsid |-> Resolved]
  /\ files \in {{}, {[name |-> FileNameOf(1), ino |-> 1,
                      lines |-> HeaderText \o HeaderText \o HeaderText \o HeaderText]}}
  /\ inodes = Cardinality(files)
  /\ cliCalls = <<>>
  /\ fileCleanupEnabled = FALSE
  /\ cliCommand = <<>>
  /\ outage = 0
  /\ Healthy

NextCSV == GenerateText("s1") \/ WriteText("s1")

SpecCSV == InitCSV /\ [][NextCSV]_vars

\* Updates: rows are stored by an ingesting caller, and two callers of the
\* repository read, update and delete them, up to version MaxVersion + 1.
\* The Trade Service answers; against a store that may fail, one ingest call
\* stores the rows.
UpdateIngests == IF Healthy THEN MaxUpdateIngests ELSE 1

NextUpdate ==
  \/ Ingest("i1", SingleBatches, UpdateIngests)
  \/ \E u \in Updaters : GetByID(u) \/ Update(u, MaxVersion) \/ Delete(u)

SpecUpdate == InitPipeline /\ [][NextUpdate]_vars

\* The batch-history repository under callers of its own: a sending caller
\* claims windows on an empty execution table, and a caller of the repository
\* reads, updates and deletes the rows.
NextRepository ==
  \/ SendStart("s1", MaxRepositoryClaims)
  \/ CreateBatchHistory("s1")
  \/ SelectForBatch("s1")
  \/ GetBatchHistoryByID("u1")
  \/ UpdateBatchHistory("u1", MaxVersion)
  \/ DeleteBatchHistory("u1")

SpecRepository == Init /\ [][NextRepository]_vars

\* Trade dates: one caller with one closed valid record sent at any hour of
\* days 1..MaxSentDay.
SentTimestamps == HoursPerDay .. (HoursPerDay * (MaxSentDay + 1) - 1)

TradeDateBatches ==
  { <<[BaseDTO(1, FALSE) EXCEPT !.sentTimestamp = t]>> : t \in SentTimestamps }

NextTradeDate == Ingest("i1", TradeDateBatches, 1)

SpecTradeDate == InitHealthy /\ [][NextTradeDate]_vars

\* Failing lookups: one caller with batches of closed valid records, against
\* a Trade Service that ends the lookup of id 1 in any way and resolves the
\* other ids.
InitLookup ==
  /\ InitStore
  /\ InitIngest
  /\ InitSend
  /\ InitHandoff
  /\ InitUpdate
  /\ InitList
  /\ InitClient
  /\ \E a \in LookupAnswers :
        tradeService = [e \in 1..MaxEsid |-> IF e = 1 THEN a ELSE Resolved]

NextLookup == Ingest("i1", SeqsUpTo(ClosedDTOs, MaxLookupBatch), MaxLookupCalls)

SpecLookup == InitLookup /\ [][NextLookup]_vars

\* The context of the ingestion call in progress ends: the client went away
\* or the deadline of the request passed.
CancelIngest(p) ==
  /\ ctxErr = ""
  /\ ipc[p] \in {"probe", "lookup", "backoff", "convert", "insert"}
  /\ \E e \in {"context canceled", "context deadline exceeded"} : ctxErr' = e
  /\ UNCHANGED <<maxRetries, baseDelay, cpc, attempt, lastErr, clientResult,
                 outcomes, waited, atCancel>>
  /\ UNCHANGED <<storeVars, clock, tradeVars, ingestVars, sendVars, handoffVars,
                 updateVars, listVars>>

\* ------------------------------------------------ one cancelled ingestion
\* One ingestion call of a batch of any records, whose context may end at any
\* point of the loop.
NextCancel ==
  \/ Ingest("i1", SeqBatches, 1)
  \/ CancelIngest("i1")

SpecCancel == Init /\ [][NextCancel]_vars

\* ------------------------------------------------------- the list endpoint
\* One ingestion call fills the table; the list is asked with any limit and
\* offset around the accepted ranges.
ListLimits == (0..MaxListLimit) \cup {MaxLimit, MaxLimit + 1}

ListOffsets == (0 - 1)..MaxListOffset

\* What a query parameter can hold: nothing, a number, no number, or a number
\* no int holds (1<<63); the limit also digits that pass 1<<64 - 1 before a
\* letter.
NotANumber == {<<"a">>, <<"1", "a">>, <<"-">>}

OutOfRange == {MinInt64Digits}

OverflowThenLetter == {[k \in 1..20 |-> "9"] \o <<"a">>}

ListLimitParams ==
  {QueryInt(n) : n \in ListLimits} \cup {<<>>} \cup NotANumber \cup OutOfRange
    \cup OverflowThenLetter

ListOffsetParams ==
  {QueryInt(n) : n \in ListOffsets} \cup {<<>>} \cup NotANumber \cup OutOfRange

NextList ==
  \/ Ingest("i1", SeqsUpTo(ClosedDTOs, MaxListRows), 1)
  \/ \E limitStr \in ListLimitParams : \E offsetStr \in ListOffsetParams :
        GetExecutions(limitStr, offsetStr)
  \/ ListPage

SpecList == InitHealthy /\ [][NextList]_vars

\* ------------------------------------------------------- the handoff alone
\* The pipeline under any configuration of the handoff: the cleanup flag set
\* or not, the CLI command configured or not.
\* The commands the service is configured with: none (the default), a space,
\* a program and the placeholder of the file name, a command with a quoted
\* argument (echo "Mock CLI"), a pair of quotes, a quoted space, and a
\* command and a last argument that end in a character of two bytes.
CLICommands ==
  { <<>>, <<" ">>, <<"cli", " ", "{filename}">>,
    <<"echo", " ", Quote, "Mock", " ", "CLI", Quote>>,
    <<Quote, Quote>>, <<Quote, " ", Quote>>,
    <<"caf", TwoByteChar>>, <<"cli", " ", "{filename}", " ", TwoByteChar>> }

InitConfigured ==
  /\ InitStore
  /\ InitIngest
  /\ InitSend
  /\ InitUpdate
  /\ InitList
  /\ InitClient
  /\ tradeService = [e \in 1..MaxEsid |-> Resolved]
  /\ files = {}
  /\ inodes = 0
  /\ cliCalls = <<>>
  /\ fileCleanupEnabled \in BOOLEAN
  /\ cliCommand \in CLICommands
  /\ outage = 0

NextHandoff ==
  \/ Ingest("i1", SingleBatches, MaxHandoffCalls - nsends - storeFaultLimit)
  \/ \E p \in Senders : Send(p, MaxHandoffCalls - icalls - storeFaultLimit)

SpecHandoff == InitConfigured /\ [][NextHandoff]_vars

\* ---------------------------------------------------------------- progress
\* The steps of a send after its entry: each is a store call, the writing of
\* the file or the CLI invocation, which returns (exec.CommandContext under
\* context.WithTimeout ends the command at the timeout).
SendStep(p) ==
  \/ CreateBatchHistory(p)
  \/ SelectForBatch(p)
  \/ GenerateFile(p)
  \/ WriteLine(p)
  \/ InvokeCLI(p)
  \/ Cleanup(p)

\* The steps of executeWithRetry after its entry: a request returns (the
\* http.Client has a timeout), and the select of the wait has a case that
\* becomes ready.
RetryStep == Request \/ Backoff

\* A behaviour runs the pipeline or one trade lookup call under any retry
\* configuration; the two share no state.
NextLive ==
  \/ cpc = "idle" /\ Ingest("i1", SingleBatches, MaxLiveCalls - nsends - storeFaultLimit)
  \/ cpc = "idle" /\ \E p \in Senders : Send(p, MaxLiveCalls - icalls - storeFaultLimit)
  \/ nsends = 0 /\ icalls = 0 /\ NextRetry

\* A goroutine that has entered Send or executeWithRetry keeps running.
Fairness ==
  /\ \A p \in Senders : WF_vars(SendStep(p))
  /\ WF_vars(RetryStep)

SpecLive == InitRetry /\ [][NextLive]_vars /\ Fairness

\* ------------------------------------------------------------- properties
StoredEsids == {executions[i].executionServiceId : i \in 1..Len(executions)}

Resolvable(esid) ==
  /\ esid \in DOMAIN tradeService
  /\ GetPortfolioIDFromTradeService(tradeService[esid]).err = ""

Persistable(dto) ==
  /\ ValidateStruct(dto)
  /\ ~dto.isOpen
  /\ Resolvable(dto.executionServiceId)

\* The allocations a claimed window [prev, now) covers.
Covered(a) ==
  {executions[k].id : k \in {n \in 1..Len(executions) :
      /\ a.prev <= executions[n].readyToSendTimestamp
      /\ executions[n].readyToSendTimestamp < a.now}}

\* C1: under concurrent ingest calls the store never holds two allocation
\* rows with the same externalExecutionId.
C1_AtMostOneRowPerExecution ==
  \A i, j \in 1..Len(executions) :
     i # j => executions[i].executionServiceId # executions[j].executionServiceId

\* Two callers raced on one id: one row is stored and the other caller's
\* insert was rejected.
C1_Witness ==
  \E p \in Ingesters : \E k \in 1..Len(response[p].Results) :
     /\ response[p].Results[k].Error = "failed to create execution"
     /\ response[p].Results[k].ExecutionServiceID \in StoredEsids

\* C2: the committed batch-history rows form a chain: no two rows share a
\* startTime or a previousStartTime, the row with the least startTime has the
\* zero time as previousStartTime, and every other row's previousStartTime is
\* the startTime of the row just before it in startTime order.
C2_WindowsFormChain ==
  \A i \in 1..Len(batchHistory) :
     LET r == batchHistory[i]
         earlier == {batchHistory[j].startTime : j \in
                       {n \in 1..Len(batchHistory) :
                          batchHistory[n].startTime < r.startTime}}
     IN /\ \A j \in 1..Len(batchHistory) :
             j # i => /\ batchHistory[j].startTime # r.startTime
                      /\ batchHistory[j].previousStartTime # r.previousStartTime
        /\ IF earlier = {} THEN r.previousStartTime = ZeroTime
           ELSE /\ r.previousStartTime \in earlier
                /\ \A t \in earlier : t <= r.previousStartTime

\* C3: an allocation row is in the selection of at most one claimed window.
C3_NoDoubleHandoff ==
  \A i, j \in 1..Len(attempts) :
     i # j => attempts[i].selected \cap attempts[j].selected = {}

\* Two send attempts each selected allocations.
C3_Witness ==
  \E i, j \in 1..Len(attempts) :
     /\ i # j
     /\ attempts[i].selected # {}
     /\ attempts[j].selected # {}

\* C4: once a send attempt has claimed [prev, now) and run its selection (as
\* have the attempts that claimed before it), every persisted allocation
\* with readyToSendTimestamp < now is in the selection of some claimed window.
C4_NoAllocationLost ==
  \A i \in 1..Len(attempts) :
     (\A k \in 1..i : attempts[k].ran) =>
        \A n \in 1..Len(executions) :
           executions[n].readyToSendTimestamp < attempts[i].now =>
              \E j \in 1..Len(attempts) : executions[n].id \in attempts[j].selected

\* C5: of two send calls that both read the same max(startTime) before either
\* inserted, exactly one commits a batch-history row.
C5_ExactlyOneCommits ==
  \A p, q \in Senders :
     (storeFaults = 0 /\ q \in rivals[p] /\ spc[p] = "done" /\ spc[q] = "done") =>
        ((claim[p] # 0) # (claim[q] # 0))

\* C6: a send whose batch-history insert is rejected by a unique constraint
\* (the only way a send ends without a batch id) returns the service error
\* "duplicate batch process already started" and HTTP 409.
C6_ContentionIsConflict ==
  \A p \in Senders :
     (storeFaults = 0 /\ spc[p] = "done" /\ claim[p] = 0) =>
        /\ sendErr[p] = "duplicate batch process already started"
        /\ httpStatus[p] = 409

\* C7: with a single caller and a store whose statements all came back, a
\* finished ingest(B) has added exactly one row
\* for each distinct closed, valid, resolvable, not-yet-stored id of B; and
\* when B is the batch of the caller's previous call, the store did not grow
\* and every closed, valid, resolvable record of B is reported skipped.
C7_IngestIdempotent ==
  \A p \in Ingesters :
     (ipc[p] = "done" /\ storeFaults = 0) =>
        LET new == {batch[p][k].executionServiceId : k \in
                      {n \in 1..Len(batch[p]) :
                         /\ Persistable(batch[p][n])
                         /\ batch[p][n].executionServiceId \notin before[p]}}
        IN /\ Len(executions) = Cardinality(before[p]) + Cardinality(new)
           /\ StoredEsids = before[p] \cup new
           /\ lastBatch[p] = batch[p] =>
                /\ Len(executions) = Cardinality(before[p])
                /\ \A k \in 1..Len(batch[p]) :
                     Persistable(batch[p][k]) =>
                        response[p].Results[k].Status = "skipped"

\* The same batch was ingested twice and a persistable record of it was
\* reported as already existing.
C7_Witness ==
  \E p \in Ingesters :
     /\ ipc[p] = "done"
     /\ lastBatch[p] = batch[p]
     /\ \E k \in 1..Len(batch[p]) :
          /\ Persistable(batch[p][k])
          /\ response[p].Results[k].Error = "execution already exists"

\* C8: readyToSendTimestamp is non-decreasing in commit order.
C8_ReadyToSendMonotone ==
  \A i, j \in 1..Len(executions) :
     i < j => executions[i].readyToSendTimestamp <= executions[j].readyToSendTimestamp

\* C9: a valid, closed, resolvable record whose id is in the store is never
\* reported as error: the caller that lost the insert race reports skipped.
C9_RaceLoserSkipped ==
  \A p \in Ingesters : \A k \in 1..Len(response[p].Results) :
     (/\ Persistable(batch[p][k])
      /\ batch[p][k].executionServiceId \in StoredEsids) =>
        response[p].Results[k].Status # "error"

\* C10: a send attempt that failed after claiming its window leaves its
\* batch-history row in place, and no attempt that claimed later selects an
\* allocation the failed window covers.
C10_FailedWindowConsumed ==
  \A i \in 1..Len(attempts) :
     attempts[i].state = "Failed" =>
        /\ \E k \in 1..Len(batchHistory) :
              batchHistory[k] = [id |-> attempts[i].id, startTime |-> attempts[i].now,
                                 previousStartTime |-> attempts[i].prev, version |-> 1]
        /\ \A j \in 1..Len(attempts) :
              j > i => attempts[j].selected \cap Covered(attempts[i]) = {}

\* A failed attempt covered an allocation and a later attempt ran its
\* selection.
C10_Witness ==
  \E i, j \in 1..Len(attempts) :
     /\ i < j
     /\ attempts[i].state = "Failed"
     /\ Covered(attempts[i]) # {}
     /\ attempts[j].ran

\* The senders that hold a claimed window and have not returned.
InHandoff == {p \in Senders : spc[p] \in {"generate", "write", "invoke", "cleanup"}}

\* C11: no two send attempts are generating a file, invoking the CLI or
\* cleaning up at the same time.
C11_HandoffSerialized == Cardinality(InHandoff) <= 1

\* The frame of a send step: no batch-history row, no allocation row, no
\* selection, no file and no command is added or changed.
SendFrame(p) ==
  /\ batchHistory' = batchHistory
  /\ executions' = executions
  /\ attempts' = attempts
  /\ files' = files
  /\ cliCalls' = cliCalls
  /\ selection'[p] = <<>>
  /\ fileName'[p] = NoFileName
  /\ batchID'[p] = 0
  /\ claim'[p] = 0

\* C12: a send call whose batch-history insert is rejected by a unique index
\* (the outcome the interface names Conflict) is made of two steps, the read
\* of the maximum and the rejected insert, and neither adds a batch-history
\* row, selects an allocation, writes a file or runs the CLI.
C12_ConflictNoSideEffects ==
  [][\A p \in Senders :
       (\/ spc[p] # "create" /\ spc'[p] = "create"
        \/ spc[p] = "create" /\ spc'[p] = "done" /\ storeFaults' = storeFaults)
          => SendFrame(p)]_vars

\* A call was rejected at its insert while the other caller, holding the
\* window, was generating its file or invoking the CLI.
C12_Witness ==
  \E p, q \in Senders :
     /\ storeFaults = 0
     /\ spc[p] = "done"
     /\ claim[p] = 0
     /\ sendErr[p] = "failed to create batch history"
     /\ q \in InHandoff
     /\ batchHistory # <<>>

\* C13: a send call that finds its claimed window empty returns status
\* "empty" with processedCount 0 and an empty fileName, writes no file, runs no
\* CLI command, and leaves the batch-history row of its window in the table.
C13_EmptyWindowStatusEmpty ==
  [][\A p \in Senders :
       (spc[p] = "select" /\ spc'[p] = "done" /\ sendErr'[p] = "") =>
          /\ sendResponse'[p].Status = "empty"
          /\ sendResponse'[p].ProcessedCount = 0
          /\ sendResponse'[p].FileName = NoFileName
          /\ files' = files
          /\ cliCalls' = cliCalls
          /\ batchHistory' = batchHistory
          /\ \E k \in 1..Len(batchHistory) :
                batchHistory[k].id = attempts[claim[p]].id]_vars

\* C14: the first batch-history row to be committed records the zero time as
\* previousStartTime, and its window covers every allocation that was stored
\* when it was committed.
C14_FirstWindowFromZeroTime ==
  [][(batchHistory = <<>> /\ batchHistory' # <<>>) =>
        /\ batchHistory'[1].previousStartTime = ZeroTime
        /\ \A n \in 1..Len(executions) :
              InWindow(executions[n], batchHistory'[1].previousStartTime,
                       batchHistory'[1].startTime)]_vars

\* C15: when the CLI invocation fails, the caller is answered 500 with a
\* SendResponse as body: status "error", processedCount the size of the
\* selection, fileName the name of the generated file, and a message.
C15_CliFailureResult ==
  \A p \in Senders :
     (spc[p] = "done" /\ sendErr[p] = "CLI invocation failed") =>
        /\ httpStatus[p] = 500
        /\ sendBody[p].kind = "SendResponse"
        /\ sendBody[p].response.Status = "error"
        /\ sendBody[p].response.ProcessedCount
             = Cardinality(attempts[claim[p]].selected)
        /\ sendBody[p].response.FileName # NoFileName
        /\ sendBody[p].response.Message # ""

\* The positions of the results of caller p with the given status.
WithStatus(p, status) ==
  {k \in 1..Len(response[p].Results) : response[p].Results[k].Status = status}

\* C19: an ingest call with a batch of 1..100 records ends with a
\* BatchCreateResponse as its body, never an ErrorResponse; the results list
\* has one entry per input record, in input order and with that record's
\* executionServiceId; and processedCount, skippedCount and errorCount are the
\* numbers of results with status created, skipped and error, which add up to
\* the batch size.
C19_OneResultPerRecord ==
  \A p \in Ingesters :
     (ipc[p] = "done" /\ Len(batch[p]) \in 1..MaxBatchSize) =>
        /\ ierr[p] = ""
        /\ ihttp[p] \in {201, 207, 400}
        /\ Len(response[p].Results) = Len(batch[p])
        /\ \A k \in 1..Len(batch[p]) :
              /\ response[p].Results[k].ExecutionServiceID
                    = batch[p][k].executionServiceId
              /\ response[p].Results[k].Status \in {"created", "skipped", "error"}
        /\ response[p].ProcessedCount = Cardinality(WithStatus(p, "created"))
        /\ response[p].SkippedCount = Cardinality(WithStatus(p, "skipped"))
        /\ response[p].ErrorCount = Cardinality(WithStatus(p, "error"))
        /\ response[p].ProcessedCount + response[p].SkippedCount
              + response[p].ErrorCount = Len(batch[p])

\* A batch of 100 records ended with created, skipped and errored records.
C19_Witness ==
  \E p \in Ingesters :
     /\ ipc[p] = "done"
     /\ Len(batch[p]) = MaxBatchSize
     /\ response[p].ProcessedCount > 0
     /\ response[p].SkippedCount > 0
     /\ response[p].ErrorCount > 0

\* C20: an ingest call with a batch of 0 or of more than 100 records is
\* answered 400 with an ErrorResponse, with no record processed, no Trade
\* Service call made and the execution table as it was at entry; a batch of
\* exactly 100 records is processed.
C20_SizeOutOfRangeRejected ==
  \A p \in Ingesters :
     ipc[p] = "done" =>
        /\ (Len(batch[p]) = 0 \/ Len(batch[p]) > MaxBatchSize) =>
              /\ ihttp[p] = 400
              /\ ierr[p] # ""
              /\ response[p].Results = <<>>
              /\ lookups[p] = 0
              /\ StoredEsids = before[p]
              /\ Len(executions) = Cardinality(before[p])
        /\ Len(batch[p]) = MaxBatchSize =>
              /\ ierr[p] = ""
              /\ Len(response[p].Results) = MaxBatchSize

\* A batch of 101 records was turned away after a batch of 100 had been
\* processed and had stored rows.
C20_Witness ==
  \E p \in Ingesters :
     /\ ipc[p] = "done"
     /\ Len(batch[p]) = MaxBatchSize + 1
     /\ Len(lastBatch[p]) = MaxBatchSize
     /\ ihttp[p] = 400
     /\ executions # <<>>

\* The number of leading 5xx responses among the requests issued.
RECURSIVE Leading5xx(_)
Leading5xx(rs) ==
  IF rs = <<>> THEN 0
  ELSE IF rs[1].status >= 500 THEN 1 + Leading5xx(Tail(rs)) ELSE 0

\* C16: one call issues at most maxRetries + 1 requests; and while the
\* caller's context is live, after k <= maxRetries 5xx responses and nothing
\* else the call has not given up, and when the next response is a decodable
\* 2xx the call returns it without error, after k + 1 requests.
C16_BoundedRetryThenSuccess ==
  /\ Len(outcomes) <= maxRetries + 1
  /\ LET k == Leading5xx(outcomes)
     IN /\ (ctxErr = "" /\ k = Len(outcomes) /\ k <= maxRetries /\ k > 0) =>
              cpc \in {"wait", "request"}
        /\ (/\ ctxErr = ""
            /\ cpc = "done"
            /\ Len(outcomes) = k + 1
            /\ outcomes[k + 1] = [status |-> 200, body |-> "json"]) =>
              /\ clientResult = [response |-> "json", err |-> <<>>]
              /\ k <= maxRetries

\* With the default configuration, three 5xx responses and then a 2xx: the
\* call succeeded on its fourth request.
C16_Witness ==
  /\ maxRetries = DefaultMaxRetries
  /\ cpc = "done"
  /\ Len(outcomes) = DefaultMaxRetries + 1
  /\ Leading5xx(outcomes) = DefaultMaxRetries
  /\ clientResult.err = <<>>
  /\ waited = <<baseDelay, 2 * baseDelay, 3 * baseDelay>>

\* C17: a request is followed by another only when it failed in the transport
\* or came back 5xx; after a 4xx, and after any other failure such as a 2xx
\* whose body does not decode, the call issues no further request.
C17_RetryOnlyTransportOr5xx ==
  \A i \in 1..Len(outcomes) :
     i < Len(outcomes) => (outcomes[i].status = 0 \/ outcomes[i].status >= 500)

\* C18: when the caller's context ends while the client is in a backoff wait
\* (a wait of a delay that is not zero), the client issues no further
\* request, does not sleep the delay out, and what it returns is the
\* context's error.
C18_CancelDuringBackoff ==
  (atCancel # <<>> /\ baseDelay > 0) =>
     /\ Len(outcomes) = atCancel[1]
     /\ Len(waited) = atCancel[2]
     /\ cpc \in {"wait", "done"}
     /\ cpc = "done" => clientResult = [response |-> "", err |-> <<ctxErr>>]

\* The deadline passed during the second backoff wait and the call returned.
C18_Witness ==
  /\ baseDelay > 0
  /\ atCancel = <<2, 1>>
  /\ cpc = "done"
  /\ clientResult.err = <<"context deadline exceeded">>

\* C21: an ingest call that returns a BatchCreateResponse is answered 201 if
\* errorCount = 0, 207 if processedCount > 0 and errorCount > 0, and 400 if
\* processedCount = 0 and errorCount > 0; exactly one of the three applies (a
\* batch that is skipped as a whole is answered 201).
C21_StatusFromCounts ==
  \A p \in Ingesters :
     (ipc[p] = "done" /\ ierr[p] = "") =>
        LET r == response[p]
        IN /\ ihttp[p] \in {201, 207, 400}
           /\ ihttp[p] = 201 <=> r.ErrorCount = 0
           /\ ihttp[p] = 207 <=> (r.ProcessedCount > 0 /\ r.ErrorCount > 0)
           /\ ihttp[p] = 400 <=> (r.ProcessedCount = 0 /\ r.ErrorCount > 0)
           /\ (r.ProcessedCount = 0 /\ r.ErrorCount = 0 /\ r.SkippedCount > 0) =>
                 ihttp[p] = 201

\* A batch with one record created and one in error was answered 207.
C21_Witness ==
  \E p \in Ingesters :
     /\ ipc[p] = "done"
     /\ response[p].ProcessedCount = 1
     /\ response[p].ErrorCount = 1
     /\ ihttp[p] = 207

\* C22: a send call is answered 200 when the service returns a result with
\* status success or empty, 409 when the service returns the error "duplicate
\* batch process already started", and 500 when the result's status is error
\* or the service returns any other error.
C22_SendStatusMapping ==
  \A p \in Senders :
     spc[p] = "done" =>
        /\ (sendErr[p] = "" /\ sendResponse[p].Status \in {"success", "empty"}) =>
              httpStatus[p] = 200
        /\ sendErr[p] = "duplicate batch process already started" =>
              httpStatus[p] = 409
        /\ (sendErr[p] = "" /\ sendResponse[p].Status = "error") =>
              httpStatus[p] = 500
        /\ sendErr[p] \notin {"", "duplicate batch process already started"} =>
              httpStatus[p] = 500

\* One call was answered 409 on the conflict error and another 500 on a
\* result with status error and no error value.
C22_Witness ==
  \E p, q \in Senders :
     /\ spc[p] = "done" /\ httpStatus[p] = 409
     /\ sendBody[p].message = "batch process already in progress"
     /\ spc[q] = "done" /\ httpStatus[q] = 500
     /\ sendErr[q] = "" /\ sendResponse[q].Status = "error"

\* C23: every row of the execution table has isOpen = false, a non-empty
\* portfolioId and version = 1.
C23_PersistedRowShape ==
  \A n \in 1..Len(executions) :
     /\ executions[n].isOpen = FALSE
     /\ executions[n].portfolioId # ""
     /\ executions[n].version = 1

\* A call stored one record of its batch while the lookup of another came
\* back with an empty portfolio id.
C23_Witness ==
  /\ ipc["i1"] = "done"
  /\ \E k \in 1..Len(batch["i1"]) :
        /\ response["i1"].Results[k].Status = "created"
        /\ \E n \in 1..Len(executions) :
              executions[n].id = response["i1"].Results[k].ExecutionID
  /\ \E k \in 1..Len(batch["i1"]) :
        /\ response["i1"].Results[k].Error = "failed to get portfolio ID"
        /\ tradeService[batch["i1"][k].executionServiceId].executions = <<"">>

\* C24: when the lookup of a record's portfolio fails, whatever the reason,
\* that record's result is error and the table gains no row for it, while the
\* records whose lookup succeeds are created, or skipped behind an earlier
\* record with the same id, as long as every statement of the store came
\* back.
C24_LookupFailureIsolated ==
  \A p \in Ingesters :
     ipc[p] = "done" =>
        \A k \in 1..Len(response[p].Results) :
           LET esid == batch[p][k].executionServiceId
               res == response[p].Results[k]
               a == tradeService[esid]
               failed == \/ a.status = 0
                         \/ a.status >= 400
                         \/ a.body # "json"
                         \/ a.executions = <<>>
                         \/ a.executions[1] = ""
           IN IF ~failed
                THEN storeFaults = 0 =>
                        /\ res.Status \in {"created", "skipped"}
                        /\ esid \in StoredEsids
                ELSE /\ res.Status = "error"
                     /\ res.Error = "failed to get portfolio ID"
                     /\ esid \notin StoredEsids

\* The lookup of the first record came back 200 with a body that is not JSON;
\* the second record of the batch was created.
C24_Witness ==
  /\ ipc["i1"] = "done"
  /\ Len(batch["i1"]) = 2
  /\ tradeService[1] = [status |-> 200, body |-> "invalid json", executions |-> <<>>]
  /\ batch["i1"][1].executionServiceId = 1
  /\ response["i1"].Results[1].Status = "error"
  /\ response["i1"].Results[2].Status = "created"
  /\ Len(executions) = 1

\* C25: the tradeDate of every row of the execution table is the calendar
\* date of its sentTimestamp in America/New_York.
C25_TradeDateIsEasternDate ==
  \A n \in 1..Len(executions) :
     executions[n].tradeDate
        = DateIn(executions[n].sentTimestamp,
                 EasternOffset(executions[n].sentTimestamp))

\* C26: the selection of a window [prev, now) is exactly the rows of the
\* execution table with prev <= readyToSendTimestamp < now, each once, in
\* ascending order of readyToSendTimestamp and, among equal timestamps, of id.
C26_SelectionOrderedByReadyThenId ==
  [][\A p \in Senders :
       (spc[p] = "select" /\ spc'[p] = "generate") =>
          LET sel == selection'[p]
              inWindow == {n \in 1..Len(executions) :
                             /\ previousStartTime[p] <= executions[n].readyToSendTimestamp
                             /\ executions[n].readyToSendTimestamp < currentTime[p]}
          IN /\ Len(sel) = Cardinality(inWindow)
             /\ {sel[k] : k \in 1..Len(sel)} = {executions[n] : n \in inWindow}
             /\ \A i, j \in 1..Len(sel) :
                   i < j =>
                      \/ sel[i].readyToSendTimestamp < sel[j].readyToSendTimestamp
                      \/ /\ sel[i].readyToSendTimestamp = sel[j].readyToSendTimestamp
                         /\ sel[i].id < sel[j].id]_vars

\* C27: an update succeeds only if the version supplied is the version
\* stored, and then the stored version goes up by exactly 1 and the caller's
\* copy with it; an update whose version is not the one stored fails and
\* leaves the table as it was, and when the statement and the count of its
\* rows came back it fails with "execution not found or version conflict".
\* Of two updates issued from the same version of a row, exactly one succeeds:
\* the first does, and the other, coming after it, does not.
C27_OptimisticUpdate ==
  /\ [][\A u \in Updaters :
         (/\ upc'[u] = "updated"
          /\ <<upc'[u], held'[u], ures'[u]>> # <<upc[u], held[u], ures[u]>>) =>
            LET supplied == ures'[u]
                hit == {n \in 1..Len(executions) :
                          /\ executions[n].id = supplied.id
                          /\ executions[n].version = supplied.version}
            IN /\ held'[u].id = supplied.id
               /\ supplied.err = "" =>
                    /\ hit # {}
                    /\ held'[u].version = supplied.version + 1
                    /\ Len(executions') = Len(executions)
                    /\ \A n \in 1..Len(executions) :
                          IF n \in hit
                            THEN /\ executions'[n].version = executions[n].version + 1
                                 /\ executions'[n].id = executions[n].id
                                 /\ executions'[n].quantity = held'[u].quantity
                            ELSE executions'[n] = executions[n]
               /\ hit = {} =>
                    /\ supplied.err # ""
                    /\ executions' = executions
                    /\ held'[u].version = supplied.version
               /\ storeFaults' = storeFaults =>
                    supplied.err = IF hit # {} THEN ""
                                   ELSE "execution not found or version conflict"]_vars
  /\ [][\A u, v \in Updaters :
         (/\ u # v
          /\ upc'[u] = "updated"
          /\ <<upc'[u], held'[u], ures'[u]>> # <<upc[u], held[u], ures[u]>>) =>
            /\ (/\ upc[v] = "loaded"
                /\ held[v].id = ures'[u].id /\ held[v].version = ures'[u].version
                /\ storeFaults' = storeFaults
                /\ \E n \in 1..Len(executions) :
                      /\ executions[n].id = ures'[u].id
                      /\ executions[n].version = ures'[u].version) =>
                  ures'[u].err = ""
            /\ (/\ upc[v] = "updated"
                /\ ures[v] = [id |-> ures'[u].id, version |-> ures'[u].version,
                              err |-> ""]) =>
                  ures'[u].err # ""]_vars

\* Two callers read version 1 of a row and both updated it: one succeeded,
\* the other ran into the version conflict, and the row is at version 2 with
\* the winner's quantity.
C27_Witness ==
  \E u, v \in Updaters : \E n \in 1..Len(executions) :
     /\ upc[u] = "updated" /\ upc[v] = "updated"
     /\ ures[u] = [id |-> executions[n].id, version |-> 1, err |-> ""]
     /\ ures[v] = [id |-> executions[n].id, version |-> 1,
                   err |-> "execution not found or version conflict"]
     /\ executions[n].version = 2
     /\ executions[n].quantity = held[u].quantity
     /\ held[v].quantity # held[u].quantity

\* The reader of a file under the declared rules: fields are separated by
\* commas and records are ended by newlines, except inside double quotes; a
\* field in double quotes stands for its inside, where a doubled double quote
\* stands for one. A position is inside quotes when an odd number of double
\* quotes precede it.
InQuotes(text, i) == Cardinality({ j \in 1..(i - 1) : text[j] = Quote }) % 2 = 1

Separators(text, c) == { i \in 1..Len(text) : text[i] = c /\ ~InQuotes(text, i) }

Nth(S, k) == CHOOSE n \in S : Cardinality({ m \in S : m <= n }) = k

Unquote(raw) ==
  IF raw # <<>> /\ raw[1] = Quote
    THEN LET inner == SubSeq(raw, 2, Len(raw) - 1)
             keep == { i \in 1..Len(inner) :
                         \/ inner[i] # Quote
                         \/ Cardinality({ j \in 1..i : inner[j] = Quote }) % 2 = 0 }
         IN [k \in 1..Cardinality(keep) |-> inner[Nth(keep, k)]]
    ELSE raw

ParseRecord(text, commas, lo, hi) ==
  LET cs == { i \in commas : lo <= i /\ i <= hi }
      n == Cardinality(cs)
  IN [k \in 1..(n + 1) |->
        Unquote(SubSeq(text, IF k = 1 THEN lo ELSE Nth(cs, k - 1) + 1,
                             IF k = n + 1 THEN hi ELSE Nth(cs, k) - 1))]

ParseFile(text) ==
  LET newlines == Separators(text, Newline)
      commas == Separators(text, Comma)
  IN [k \in 1..Cardinality(newlines) |->
        ParseRecord(text, commas,
                    IF k = 1 THEN 1 ELSE Nth(newlines, k - 1) + 1,
                    Nth(newlines, k) - 1)]

DigitValue(c) == CHOOSE n \in 0..9 : Digits[n + 1] = c

RECURSIVE ParseInt(_)
ParseInt(chars) ==
  IF chars = <<>> THEN 0
  ELSE 10 * ParseInt(SubSeq(chars, 1, Len(chars) - 1)) + DigitValue(chars[Len(chars)])

\* A number with eight fractional digits: its units and hundred-millionths.
ParseFixed8(chars) ==
  LET n == Len(chars)
  IN Decimal(ParseInt(SubSeq(chars, 1, n - 9)), ParseInt(SubSeq(chars, n - 7, n)))

\* A date YYYY-MM-DD of the month of the model.
ParseDate(chars) == ParseInt(SubSeq(chars, 9, 10)) - 14

\* C28: reading a generated file back gives the header and then one record
\* per row, in the order of the rows, with the row's portfolio_id and
\* security_id, source_id "AC" followed by the id, the transaction_type, the
\* quantity, the price and the transaction_date.
C28_CsvRoundTrip ==
  \A p \in Senders :
     (spc[p] = "done" /\ fileName[p] # NoFileName) =>
        \E f \in files :
           /\ f.name = fileName[p]
           /\ LET records == ParseFile(f.lines)
                  rows == selection[p]
              IN /\ Len(records) = Len(rows) + 1
                 /\ records[1] = << <<"portfolio_id">>, <<"security_id">>,
                                    <<"source_id">>, <<"transaction_type">>,
                                    <<"quantity">>, <<"price">>,
                                    <<"transaction_date">> >>
                 /\ \A k \in 1..Len(rows) :
                       LET rec == records[k + 1]
                       IN /\ Len(rec) = 7
                          /\ rec[1] = rows[k].portfolioId
                          /\ rec[2] = rows[k].securityId
                          /\ rec[3] = <<"A", "C">> \o FormatInt(rows[k].id, 1)
                          /\ rec[4] = rows[k].tradeType
                          /\ Len(rec[5]) >= 10 /\ rec[5][Len(rec[5]) - 8] = "."
                          /\ ParseFixed8(rec[5]) = rows[k].quantity
                          /\ Len(rec[6]) >= 10 /\ rec[6][Len(rec[6]) - 8] = "."
                          /\ ParseFixed8(rec[6]) = rows[k].averagePrice
                          /\ Len(rec[7]) = 10
                          /\ ParseDate(rec[7]) = rows[k].tradeDate

\* C29: once the context of an ingestion call has ended, the loop starts no
\* record it had not started yet: the record in hand finishes and reports,
\* and the index of the loop never moves on to the probe of a later record.
C29_NoWorkAfterCancel ==
  [][ctxErr # "" => ~(ipc'["i1"] = "probe" /\ idx'["i1"] > idx["i1"])]_vars

\* C30: in every answer 200 of the list endpoint, totalPages is the count of
\* rows divided by the limit and rounded up, currentPage is the offset
\* divided by the limit and rounded down, hasPrevious says that currentPage
\* is above 0 and hasNext that currentPage is below totalPages - 1, whether
\* or not the offset is a multiple of the limit.
C30_PaginationMetadata ==
  listResponse.status = 200 =>
     LET pg == listResponse.pagination
         total == pg.TotalElements
         limit == listResponse.limit
         offset == listResponse.offset
     IN /\ pg.TotalPages * limit >= total
        /\ (pg.TotalPages - 1) * limit < total
        /\ pg.CurrentPage * limit <= offset
        /\ offset < (pg.CurrentPage + 1) * limit
        /\ pg.HasPrevious = (pg.CurrentPage > 0)
        /\ pg.HasNext = (pg.CurrentPage < pg.TotalPages - 1)

\* C31: every send attempt moves Idle -> Claimed -> (EmptyDone | Formatted |
\* Failed), Formatted -> (Success | Failed) through the invocation, and stays
\* in a terminal state; an attempt whose insert stored its row and returned
\* an error passes through Claimed to Failed in that step.  The selection is run only by a caller whose
\* batch-history row is stored; a file is written only for a selection that
\* is not empty; the CLI is invoked only by a caller whose file was written
\* to its end; and a file is removed only by the cleanup of a caller whose
\* CLI run succeeded.
C31_SendStateMachine ==
  /\ [](\A p \in Senders :
          spc[p] \in {"select", "generate", "write", "invoke", "cleanup"} =>
             \E n \in 1..Len(batchHistory) :
                /\ claim[p] # 0
                /\ batchHistory[n].id = attempts[claim[p]].id
                /\ batchHistory[n].startTime = currentTime[p]
                /\ batchHistory[n].previousStartTime = previousStartTime[p])
  /\ [][/\ Len(attempts') >= Len(attempts)
        /\ \A k \in 1..Len(attempts') :
              IF k > Len(attempts)
                THEN \/ attempts'[k].state = "Claimed"
                     \/ /\ attempts'[k].state = "Failed"
                        /\ \E p \in Senders :
                              /\ spc[p] = "create" /\ spc'[p] = "done"
                              /\ claim'[p] = k /\ sendErr'[p] # ""
                ELSE \/ attempts'[k].state = attempts[k].state
                     \/ /\ attempts[k].state = "Claimed"
                        /\ attempts'[k].state \in {"EmptyDone", "Formatted", "Failed"}
                     \/ /\ attempts[k].state = "Formatted"
                        /\ attempts'[k].state \in {"Success", "Failed"}]_vars
  /\ [][files' # files =>
          \E p \in Senders :
             \/ /\ spc[p] \in {"generate", "write"}
                /\ selection[p] # <<>>
                /\ attempts[claim[p]].state = "Claimed"
             \/ /\ spc[p] = "cleanup"
                /\ files' = RemoveFile(files, fileName[p])
                /\ \E c \in 1..Len(cliCalls) :
                      cliCalls[c] = [fileName |-> fileName[p], ok |-> TRUE]]_vars
  /\ [][cliCalls' # cliCalls =>
          \E p \in Senders :
             /\ spc[p] = "invoke"
             /\ attempts[claim[p]].state = "Formatted"
             /\ fileName[p] # NoFileName
             /\ written[p] = Len(selection[p]) + 1
             /\ Len(cliCalls') = Len(cliCalls) + 1
             /\ cliCalls'[Len(cliCalls')].fileName = fileName[p]]_vars

\* With the cleanup flag set, an attempt went through Claimed and Formatted to
\* Success and its file was removed after the CLI had run on it.
C31_Witness ==
  /\ fileCleanupEnabled
  /\ files = {}
  /\ \E k \in 1..Len(attempts) :
        /\ attempts[k].state = "Success"
        /\ attempts[k].selected # {}
  /\ \E c \in 1..Len(cliCalls) : cliCalls[c].ok

\* C32: the steps of a record short-circuit in the order validate, open
\* filter, probe, lookup, persist.  An invalid record gets "error" even when
\* it is open; a valid open record gets "skipped" with no store read, no
\* lookup and no insert; a valid closed record that is in the store gets
\* "skipped" with the id of its row after a probe whose SELECT came back,
\* with no lookup and no insert; the lookup is made only after a probe that
\* found nothing or failed, and the insert only after a lookup.
C32_ShortCircuitOrder ==
  [][\A p \in Ingesters :
       /\ (ipc[p] = "probe" /\ (ipc'[p] # "probe" \/ idx'[p] # idx[p])) =>
            LET dto == batch[p][idx[p]]
                invalid == \/ dto.executionServiceId = 0
                           \/ dto.quantity <= 0
                           \/ dto.tradeType \notin {"BUY", "SELL"}
                stored == {n \in 1..Len(executions) :
                             executions[n].executionServiceId = dto.executionServiceId}
                results == response'[p].Results
                quiet == /\ lookups'[p] = lookups[p]
                         /\ executions' = executions
                         /\ executionSeq' = executionSeq
                reported(status) ==
                   /\ Len(results) = Len(response[p].Results) + 1
                   /\ results[Len(results)].ExecutionServiceID = dto.executionServiceId
                   /\ results[Len(results)].Status = status
            IN /\ invalid => /\ reported("error")
                             /\ probes'[p] = probes[p]
                             /\ quiet
               /\ (~invalid /\ dto.isOpen) =>
                     /\ reported("skipped")
                     /\ results[Len(results)].Error = "execution is still open"
                     /\ probes'[p] = probes[p]
                     /\ quiet
               /\ (~invalid /\ ~dto.isOpen /\ stored # {} /\ storeFaults' = storeFaults) =>
                     /\ reported("skipped")
                     /\ results[Len(results)].Error = "execution already exists"
                     /\ \E n \in stored : results[Len(results)].ExecutionID = executions[n].id
                     /\ probes'[p] = probes[p] + 1
                     /\ quiet
               /\ (~invalid /\ ~dto.isOpen
                     /\ (stored = {} \/ storeFaults' # storeFaults)) =>
                     /\ ipc'[p] = "lookup"
                     /\ probes'[p] = probes[p] + 1
                     /\ response'[p] = response[p]
                     /\ quiet
       /\ (ipc'[p] = "lookup" /\ ipc[p] \notin {"lookup", "backoff"}) => ipc[p] = "probe"
       /\ lookups'[p] > lookups[p] => ipc[p] = "lookup"
       /\ (ipc'[p] = "convert" /\ ipc[p] # "convert") =>
             ipc[p] = "lookup" /\ lookups'[p] >= 1
       /\ (ipc'[p] = "insert" /\ ipc[p] # "insert") => ipc[p] = "convert"
       /\ Len(executions') > Len(executions) =>
             \E q \in Ingesters : ipc[q] = "insert"]_vars

\* A call of two records has reported the error of an invalid open record
\* and the skip of a stored closed one with the id of its row, and has made
\* one store read and no lookup for them.
C32_Witness ==
  /\ ipc["i1"] = "done"
  /\ Len(batch["i1"]) = 2
  /\ Len(response["i1"].Results) = 2
  /\ \E k \in 1..2 : /\ batch["i1"][k].isOpen
                     /\ response["i1"].Results[k].Status = "error"
  /\ \E k \in 1..2 : /\ ~batch["i1"][k].isOpen
                     /\ response["i1"].Results[k].Error = "execution already exists"
                     /\ response["i1"].Results[k].ExecutionID > 0
  /\ probes["i1"] = 1
  /\ lookups["i1"] = 0

\* C33: windows strictly progress.  Every stored batch-history row has its
\* previousStartTime before its startTime, and the rows' startTimes rise in
\* the order in which the rows were inserted, whatever the callers' clocks
\* read.
C33_WindowsStrictlyProgress ==
  /\ \A i \in 1..Len(batchHistory) :
        batchHistory[i].previousStartTime < batchHistory[i].startTime
  /\ \A i, j \in 1..Len(batchHistory) :
        i < j => batchHistory[i].startTime < batchHistory[j].startTime

\* C34: conflict arises only from contention.  A send whose insert is
\* rejected contends with the send of another caller; in particular no insert
\* is rejected while no other caller has ever entered Send.
C34_ConflictOnlyFromContention ==
  [][\A p \in Senders :
       (storeFaults' = 0 /\ spc[p] = "create" /\ spc'[p] = "done" /\ claim'[p] = 0) =>
          \E q \in Senders \ {p} : spc[q] # "idle"]_vars

\* C35: the file of an attempt that has written it and has not yet finished
\* its CLI invocation is left as it is by every other attempt: no step of
\* another caller writes, truncates or removes a file of that name.
C35_FileNotOverwritten ==
  [][\A q \in Senders :
       (spc[q] = "invoke" /\ spc'[q] = "invoke") =>
          \A f \in files : f.name = fileName[q] => f \in files']_vars

\* C36: the two engines only add rows.  A step of a send leaves the
\* allocation table as it is and leaves every stored batch-history row as it
\* is, adding at most one row, and a send adds at most one row in all; a step
\* of an ingest leaves the batch-history table as it is and leaves every
\* stored allocation row as it is.
C36_EnginesOnlyAddRows ==
  /\ [][/\ (spc' # spc \/ written' # written \/ files' # files) =>
             /\ executions' = executions
             /\ executionSeq' = executionSeq
             /\ Len(batchHistory') \in {Len(batchHistory), Len(batchHistory) + 1}
             /\ SubSeq(batchHistory', 1, Len(batchHistory)) = batchHistory
        /\ (ipc' # ipc \/ idx' # idx) =>
             /\ batchHistory' = batchHistory
             /\ batchSeq' = batchSeq
             /\ Len(executions') >= Len(executions)
             /\ SubSeq(executions', 1, Len(executions)) = executions]_vars
  /\ [](Len(batchHistory) <= nsends)

\* Both engines have run: two allocation rows and a batch-history row are
\* stored, a send was rejected and another handed its file to the CLI.
C36_Witness ==
  /\ storeFaults = 0
  /\ Len(executions) = 2
  /\ Len(batchHistory) >= 1
  /\ \E p \in Senders : spc[p] = "done" /\ claim[p] = 0
  /\ \E k \in 1..Len(attempts) : attempts[k].state = "Success"

\* The terminal outcomes a finished send shows to its caller: the rejected
\* claim, the empty selection, the handed-off file, and a failure after the
\* claim.
SendOutcomes(p) ==
  {o \in {"Conflict", "EmptyDone", "Success", "Failed"} :
     \/ /\ o = "Conflict"
        /\ claim[p] = 0
        /\ sendErr[p] \in {"duplicate batch process already started",
                            "failed to create batch history"}
     \/ /\ o = "EmptyDone"
        /\ claim[p] # 0
        /\ sendErr[p] = ""
        /\ sendResponse[p].Message = "No executions to process"
        /\ attempts[claim[p]].state = "EmptyDone"
     \/ /\ o = "Success"
        /\ claim[p] # 0
        /\ sendErr[p] = ""
        /\ sendResponse[p].Message = "Portfolio Accounting CLI executed successfully"
        /\ attempts[claim[p]].state = "Success"
     \/ /\ o = "Failed"
        /\ \/ /\ claim[p] = 0
              /\ sendErr[p] = "failed to get max start time"
           \/ /\ claim[p] # 0
              /\ sendErr[p] # ""
              /\ attempts[claim[p]].state = "Failed"}

\* C37: every send that has been entered eventually returns, and a returned
\* send shows exactly one of the terminal outcomes Conflict, EmptyDone,
\* Success and Failed; every call of executeWithRetry that has been entered
\* eventually returns, having made at most maxRetries + 1 requests.
C37_SendAndLookupTerminate ==
  /\ \A p \in Senders : (spc[p] \notin {"idle", "done"}) ~> (spc[p] = "done")
  /\ [](\A p \in Senders : spc[p] = "done" => Cardinality(SendOutcomes(p)) = 1)
  /\ (cpc \in {"request", "wait"}) ~> (cpc = "done")
  /\ [](Len(outcomes) <= maxRetries + 1)

\* A send has returned with the file handed to the CLI.
C37_Witness ==
  \E p \in Senders : spc[p] = "done" /\ SendOutcomes(p) = {"Success"}

\* C38: a file leaves the directory only in the cleanup of a send whose CLI
\* call succeeded, and only with the cleanup flag set; the return of a send
\* whose CLI call failed or was not made, and the cleanup of any send with the
\* flag unset, leaves every file where it is; and a send whose CLI call
\* succeeded returns success with the count of its selection and the name of
\* its file whether or not the file was removed.
C38_CleanupOnlyAfterSuccess ==
  /\ [][(\E f \in files : \A g \in files' : g.name # f.name) =>
          /\ fileCleanupEnabled
          /\ \E p \in Senders :
                /\ spc[p] = "cleanup"
                /\ spc'[p] = "done"
                /\ files' = RemoveFile(files, fileName[p])
                /\ \E c \in 1..Len(cliCalls) :
                      cliCalls[c] = [fileName |-> fileName[p], ok |-> TRUE]]_vars
  /\ [][\A p \in Senders :
          (\/ spc[p] = "invoke" /\ spc'[p] = "done"
           \/ spc[p] = "cleanup" /\ spc'[p] = "done" /\ ~fileCleanupEnabled)
             => files' = files]_vars
  /\ [][\A p \in Senders :
          (spc[p] = "invoke" /\ spc'[p] = "done") =>
             /\ sendErr'[p] = "CLI invocation failed"
             /\ cliCalls' # cliCalls => ~cliCalls'[Len(cliCalls')].ok]_vars
  /\ [][\A p \in Senders :
          (/\ spc[p] = "invoke"
           /\ spc'[p] # "invoke"
           /\ cliCalls' # cliCalls
           /\ cliCalls'[Len(cliCalls')].ok) => spc'[p] = "cleanup"]_vars
  /\ [][\A p \in Senders :
          (spc[p] = "cleanup" /\ spc'[p] = "done") =>
             /\ sendErr'[p] = ""
             /\ sendResponse'[p] =
                  [ProcessedCount |-> Len(selection[p]), FileName |-> fileName[p],
                   Status |-> "success",
                   Message |-> "Portfolio Accounting CLI executed successfully"]
             /\ files' \in {files, RemoveFile(files, fileName[p])}]_vars

\* With the cleanup flag set a send returned success although the removal
\* of its file failed: the file it names is still in the directory.
C38_Witness ==
  /\ fileCleanupEnabled
  /\ Len(cliCalls) = 1
  /\ cliCalls[1].ok
  /\ \E p \in Senders :
        /\ spc[p] = "done"
        /\ sendResponse[p].Status = "success"
        /\ sendResponse[p].ProcessedCount >= 1
        /\ \E f \in files : f.name = sendResponse[p].FileName

\* The waits of a call added up.
RECURSIVE TotalWait(_)
TotalWait(w) == IF w = <<>> THEN 0 ELSE w[1] + TotalWait(Tail(w))

\* C39: the backoff is linear.  No wait precedes the first request, one wait
\* precedes each later request, the wait before retry number n is n times
\* baseDelay, and a call that has used up its retries has waited
\* baseDelay * maxRetries * (maxRetries + 1) / 2 in all.
C39_LinearBackoff ==
  /\ outcomes = <<>> => waited = <<>>
  /\ cpc = "request" => Len(waited) = Len(outcomes)
  /\ cpc = "wait" => Len(waited) = Len(outcomes) - 1
  /\ Len(waited) <= Len(outcomes)
  /\ \A n \in 1..Len(waited) : waited[n] = n * baseDelay
  /\ (cpc = "done" /\ Len(outcomes) = maxRetries + 1) =>
        2 * TotalWait(waited) = baseDelay * maxRetries * (maxRetries + 1)

\* A call with three retries and a base delay of 2 has used them all up: it
\* waited 2, 4 and 6, 12 in all.
C39_Witness ==
  /\ cpc = "done"
  /\ maxRetries = 3
  /\ baseDelay = 2
  /\ Len(outcomes) = 4
  /\ waited = <<2, 4, 6>>
  /\ TotalWait(waited) = 12
====
